---------------------------- MODULE Spec2Model ----------------------------
(***************************************************************************)
(* A model of libfreenect2-rs, the safe Rust binding of libfreenect2.      *)
(*                                                                         *)
(*   SpecGuard   the driver context guard (types/freenect2.rs): the static *)
(*               FREENECT2 weak reference, Freenect2::new, the drop of a   *)
(*               Freenect2 handle, enumerate_devices and has_instance,     *)
(*               called by concurrent threads.                             *)
(*   SpecDevice  the device session (types/freenect2_device.rs): the       *)
(*               started and closed flags and every public operation of    *)
(*               Freenect2Device, with the outcome of each native call     *)
(*               chosen by the environment.                                *)
(*   SpecListener  the multi-frame aggregator (types/frame_listener.rs):   *)
(*               MultiFrameListener::new, its callback run by the native   *)
(*               stream threads, the channel of completed sets, get_frames *)
(*               and get_frames_with_timeout with a discrete clock.        *)
(*   SpecListenerFair  the same with frames that carry no identity, so     *)
(*               that delivery never ends, with fair scheduling and with   *)
(*               callbacks that run to their end.                          *)
(*   SpecBridge  the callback bridge of a FrameListener: the user closure, *)
(*               catch_unwind and the string handed back to the native     *)
(*               side.                                                     *)
(*   SpecConfig  the depth range of a Config (types/config.rs):            *)
(*               set_min_depth and set_max_depth on f32 arguments.         *)
(*   SpecFrame   frames (types/frame.rs, types/frame_data.rs): the         *)
(*               factories, to_owned and to_frame, and the pixel           *)
(*               accessors.                                                *)
(*   SpecRegistration  the frame checks of the three Registration          *)
(*               operations (types/registration.rs).                       *)
(*   SpecReceiver  the aggregator with several threads calling get_frames  *)
(*               and get_frames_with_timeout on one listener.              *)
(*   SpecSession  devices opened from a Freenect2 handle and the drop of   *)
(*               handle and device (types/freenect2.rs).                   *)
(*   SpecIter    the row and pixel iterators of a frame's data             *)
(*               (types/frame_data_iter.rs).                               *)
(***************************************************************************)
EXTENDS Integers, Sequences, FiniteSets, TLC

(* ----------------------------- bounds --------------------------------- *)

\* Calls of iter() on the data of one frame.
MaxIters == 2

\* Devices open at the same time.
MaxDevices == 1

\* The largest width and height of a frame the native side delivers.
MaxDim == 2

\* The largest depth a caller passes to a Config, in half metres.
MaxDepthUnits == 10

\* Invocations of a FrameListener's callback in one behaviour.
MaxCalls == 2

\* Threads that call into the context guard concurrently.
NumThreads == 2

\* Native contexts constructed in one behaviour.
MaxCtx == 2

\* Freenect2 handles one thread holds at a time.
MaxHandles == 2

\* Frames the native side delivers to the aggregator in one behaviour.
MaxFrames == 3

\* Completed sets that wait in the channel (the channel itself is unbounded).
MaxQueue == 2

\* The longest timeout, in clock ticks, passed to get_frames_with_timeout.
MaxTimeout == 1

\* Threads that call get_frames / get_frames_with_timeout.
NumConsumers == 1

\* Threads that call them at the same time where the receiver's mutex is
\* contended (SpecReceiver).
NumCallers == 2

Threads == 1..NumThreads

Ctxs == 1..MaxCtx

\* Weak::new(): the weak reference that points at no allocation.
NoCtx == 0

NoThread == 0

VARIABLES
  \* ---- context guard ----
  weak,       \* FREENECT2's Weak: NoCtx or the context it points at
  strong,     \* strong[c]: the strong count of context c's Arc
  native,     \* native[c]: "none" | "live" | "destroying" | "destroyed"
  lock,       \* the thread that holds the FREENECT2 mutex, or NoThread
  pc,         \* pc[t]: where thread t is
  held,       \* held[t][c]: the Freenect2 handles to c that thread t owns
  local,      \* local[t]: the Arc the thread's current call works on
  result,     \* result[t]: what the thread's last finished call returned
  nctx,       \* native contexts constructed so far
  lastEnum,   \* state of the native context the last enumerate_devices ran on
  sharedDrop, \* a handle was dropped while others to the same context stayed
  \* ---- device session ----
  started,    \* Freenect2Device::started
  closed,     \* Freenect2Device::closed
  everStarted,\* some start()/start_streams() has succeeded on this session
  attached,   \* what the native device holds: listeners and configuration
  last,       \* the last operation: its arguments, outcome and native call
  \* ---- multi-frame aggregator ----
  created,    \* a MultiFrameListener exists
  types,      \* its FrameTypes: the set of types whose flag is set
  newCall,    \* the last MultiFrameListener::new: argument and outcome
  frames,     \* the pending FrameMap: per type a frame, or NoFrame
  fmutex,     \* the stream thread that holds the FrameMap mutex, or NoHolder
  cb,         \* cb[t]: the callback invocation stream thread t is in
  chan,       \* the channel: completed sets sent and not yet received
  nframes,    \* frames delivered so far (the last frame's identity)
  nsets,      \* sets completed so far (the last set's number)
  counting,   \* frames and sets carry identities (FALSE: they do not)
  rxlock,     \* the consumer that holds the receiver's mutex, or NoHolder
  consumer,   \* consumer[c]: where consumer c is, its timeout, its last return
  nrecv,      \* sets received so far
  elem,       \* the listener's type parameter T: "OwnedFrame" | "Frame"
  views,      \* the frames whose native Frame object is alive
  callers,    \* the consumers that call the listener in this behaviour
  hist,       \* history: the frames delivered since the last reset, by type
  \* the callback bridge
  blistener,  \* the constructor the FrameListener was built with, or "none"
  calls,      \* the invocations of the callback so far
  aborted,    \* a panic reached the native boundary and ended the process
  \* the depth configuration
  cfgMin, \* the minimum depth held by the native Config
  cfgMax, \* the maximum depth held by the native Config
  cfgLast,\* the last setter called on the Config, its argument and its result
  cfgBilateral, \* the bilateral filter toggle held by the native Config
  cfgEdgeAware, \* the edge-aware filter toggle held by the native Config
  \* frames and their pixels
  curFrame, \* the Frame at hand: built by a factory or handed to a callback
  owned, \* the OwnedFrame made of it by to_owned, if any
  copied, \* the Frame made of the OwnedFrame by to_frame, if any
  pixel,\* the last pixel read: accessor, coordinates and outcome
  \* the registration
  regLast,\* the last call on the Registration: its frames, its result, the native call
  \* device sessions and their context
  devs,\* devs[t][c]: the devices thread t holds that were opened through its handles to context c
  \* iteration over frame data
  iter \* the iteration over the data of the Frame at hand: both iterators and what they yielded

guardVars == <<weak, strong, native, lock, pc, held, local, result, nctx,
               lastEnum, sharedDrop>>

deviceVars == <<started, closed, everStarted, attached, last>>

listenerVars == <<created, types, newCall, frames, fmutex, cb, chan, nframes,
                  nsets, counting, rxlock, consumer, nrecv, elem, views, callers,
                  hist>>

bridgeVars == <<blistener, calls, aborted>>

configVars == <<cfgMin, cfgMax, cfgLast, cfgBilateral, cfgEdgeAware>>

frameVars == <<curFrame, owned, copied, pixel>>

registrationVars == <<regLast>>

sessionVars == <<devs>>

iterVars == <<iter>>

vars == <<guardVars, deviceVars, listenerVars, bridgeVars, configVars, frameVars, registrationVars, sessionVars, iterVars>>

(* ======================= the driver context guard ====================== *)

NoResult == [op |-> "none", ret |-> "none", ctx |-> NoCtx, built |-> FALSE]

\* FREENECT2 is a LazyLock over Mutex::default(): an unlocked mutex around
\* Weak::new(); no native context exists and no thread holds a handle.
GuardInit ==
  /\ weak = NoCtx
  /\ strong = [c \in Ctxs |-> 0]
  /\ native = [c \in Ctxs |-> "none"]
  /\ lock = NoThread
  /\ pc = [t \in Threads |-> "idle"]
  /\ held = [t \in Threads |-> [c \in Ctxs |-> 0]]
  /\ local = [t \in Threads |-> NoCtx]
  /\ result = [t \in Threads |-> NoResult]
  /\ nctx = 0
  /\ lastEnum = "none"
  /\ sharedDrop = FALSE

\* Handles thread t owns, and handles owned by all threads.
HandlesOf(t) == LET n[c \in 0..MaxCtx] == IF c = 0 THEN 0 ELSE n[c - 1] + held[t][c]
                IN n[MaxCtx]

TotalHandles == LET n[t \in 0..NumThreads] == IF t = 0 THEN 0 ELSE n[t - 1] + HandlesOf(t)
                IN n[NumThreads]

\* Native contexts that exist: constructed and their destructor not finished.
LiveContexts == {c \in Ctxs : native[c] \in {"live", "destroying"}}

UpgradeIgnoresCount(w) == w

UpgradeNeverSucceeds(w) == NoCtx

\* Weak::upgrade: the context w points at if its strong count is not zero.
Upgrade(w) == IF w # NoCtx /\ strong[w] > 0 THEN w ELSE NoCtx

ReleasesOnAnyDrop(c) == strong[c] >= 1

\* Arc's drop runs the destructor of the value when it gives up the last
\* strong reference.
IsLastRef(c) == strong[c] = 1

\* Freenect2::new, line 65: FREENECT2.lock().
new_lock(t) ==
  /\ pc[t] = "idle"
  /\ lock = NoThread
  /\ HandlesOf(t) < MaxHandles
  /\ lock' = t
  /\ pc' = [pc EXCEPT ![t] = "upgrade"]
  /\ UNCHANGED <<weak, strong, native, held, local, result, nctx, lastEnum, sharedDrop>>

\* Freenect2::new, lines 67-69: a successful upgrade is returned as the new
\* handle, and the guard is released by the return.
new_upgrade(t) ==
  /\ pc[t] = "upgrade"
  /\ LET inst == Upgrade(weak) IN
       IF inst # NoCtx
       THEN /\ strong' = [strong EXCEPT ![inst] = @ + 1]
            /\ held' = [held EXCEPT ![t][inst] = @ + 1]
            /\ result' = [result EXCEPT ![t] =
                            [op |-> "new", ret |-> "ok", ctx |-> inst, built |-> FALSE]]
            /\ lock' = NoThread
            /\ pc' = [pc EXCEPT ![t] = "idle"]
       ELSE /\ pc' = [pc EXCEPT ![t] = "create"]
            /\ UNCHANGED <<strong, held, result, lock>>
  /\ UNCHANGED <<weak, native, local, nctx, lastEnum, sharedDrop>>

\* Freenect2::new, line 71: Freenect2Impl::new()? calls create_freenect2; an
\* error of the native constructor is returned, which releases the guard.
new_create(t) ==
  /\ pc[t] = "create"
  /\ \E ok \in BOOLEAN :
       IF ok
       THEN /\ nctx < MaxCtx
            /\ nctx' = nctx + 1
            /\ native' = [native EXCEPT ![nctx + 1] = "live"]
            /\ strong' = [strong EXCEPT ![nctx + 1] = 1]
            /\ local' = [local EXCEPT ![t] = nctx + 1]
            /\ pc' = [pc EXCEPT ![t] = "store"]
            /\ UNCHANGED <<lock, result>>
       ELSE /\ result' = [result EXCEPT ![t] =
                            [op |-> "new", ret |-> "native_err", ctx |-> NoCtx, built |-> FALSE]]
            /\ lock' = NoThread
            /\ pc' = [pc EXCEPT ![t] = "idle"]
            /\ UNCHANGED <<nctx, native, strong, local>>
  /\ UNCHANGED <<weak, held, lastEnum, sharedDrop>>

\* Freenect2::new, lines 72-74: the static is pointed at the new Arc and the
\* handle is returned.
new_store(t) ==
  /\ pc[t] = "store"
  /\ weak' = local[t]
  /\ held' = [held EXCEPT ![t][local[t]] = @ + 1]
  /\ result' = [result EXCEPT ![t] =
                  [op |-> "new", ret |-> "ok", ctx |-> local[t], built |-> TRUE]]
  /\ local' = [local EXCEPT ![t] = NoCtx]
  /\ lock' = NoThread
  /\ pc' = [pc EXCEPT ![t] = "idle"]
  /\ sharedDrop' = FALSE
  /\ UNCHANGED <<strong, native, nctx, lastEnum>>

Borrowed_by_none(d) == 0

\* Freenect2::open_default_device(&mut self) -> Result<Freenect2Device>,
\* lines 121, 140 and 158: the lifetime of the device returned is the one of
\* the exclusive borrow of the handle, so each of d devices keeps one handle
\* borrowed; a borrowed handle can be neither dropped nor used.
Borrowed(d) == d

\* A Freenect2 handle goes out of scope: the Arc gives up one strong
\* reference without taking the FREENECT2 mutex; giving up the last one
\* starts the destructor of Freenect2Impl (the native context's destructor)
\* on the dropping thread.
drop_handle(t, c) ==
  /\ pc[t] = "idle"
  /\ held[t][c] > Borrowed(devs[t][c])
  /\ held' = [held EXCEPT ![t][c] = @ - 1]
  /\ strong' = [strong EXCEPT ![c] = @ - 1]
  /\ IF IsLastRef(c)
     THEN /\ native' = [native EXCEPT ![c] = "destroying"]
          /\ local' = [local EXCEPT ![t] = c]
          /\ pc' = [pc EXCEPT ![t] = "destroy"]
          /\ sharedDrop' = FALSE
     ELSE /\ sharedDrop' = TRUE
          /\ UNCHANGED <<native, local, pc>>
  /\ lastEnum' = "none"
  /\ UNCHANGED <<weak, lock, result, nctx>>

\* The native destructor started by drop_handle returns.
drop_finish(t) ==
  /\ pc[t] = "destroy"
  /\ native' = [native EXCEPT ![local[t]] = "destroyed"]
  /\ local' = [local EXCEPT ![t] = NoCtx]
  /\ pc' = [pc EXCEPT ![t] = "idle"]
  /\ UNCHANGED <<weak, strong, lock, held, result, nctx, lastEnum, sharedDrop>>

\* Freenect2::enumerate_devices through one of the thread's handles: the
\* native call runs on the context the handle refers to, and returns a
\* count or throws.
enumerate_devices(t, c) ==
  /\ pc[t] = "idle"
  /\ held[t][c] > Borrowed(devs[t][c])
  /\ lastEnum' = native[c]
  /\ \E r \in {"ok", "native_err"} :
       result' = [result EXCEPT ![t] =
                    [op |-> "enumerate_devices", ret |-> r, ctx |-> c, built |-> FALSE]]
  /\ UNCHANGED <<weak, strong, native, lock, pc, held, local, nctx, sharedDrop>>

\* Freenect2::has_instance: FREENECT2.lock().
has_instance_lock(t) ==
  /\ pc[t] = "idle"
  /\ lock = NoThread
  /\ lock' = t
  /\ pc' = [pc EXCEPT ![t] = "hi_upgrade"]
  /\ UNCHANGED <<weak, strong, native, held, local, result, nctx, lastEnum, sharedDrop>>

\* Freenect2::has_instance: upgrade().is_some(). A successful upgrade is a
\* temporary Arc, which lives to the end of the expression.
has_instance_upgrade(t) ==
  /\ pc[t] = "hi_upgrade"
  /\ LET inst == Upgrade(weak) IN
       /\ result' = [result EXCEPT ![t] =
                       [op |-> "has_instance",
                        ret |-> IF inst # NoCtx THEN "true" ELSE "false",
                        ctx |-> inst, built |-> FALSE]]
       /\ IF inst # NoCtx
          THEN /\ strong' = [strong EXCEPT ![inst] = @ + 1]
               /\ local' = [local EXCEPT ![t] = inst]
               /\ pc' = [pc EXCEPT ![t] = "hi_drop"]
               /\ UNCHANGED lock
          ELSE /\ lock' = NoThread
               /\ pc' = [pc EXCEPT ![t] = "idle"]
               /\ UNCHANGED <<strong, local>>
  /\ UNCHANGED <<weak, native, held, nctx, lastEnum, sharedDrop>>

\* Freenect2::has_instance: the temporary Arc is dropped before the guard.
\* If the handles were dropped meanwhile, it is the last reference and the
\* native destructor runs here, with the mutex held.
has_instance_drop(t) ==
  /\ pc[t] = "hi_drop"
  /\ strong' = [strong EXCEPT ![local[t]] = @ - 1]
  /\ IF IsLastRef(local[t])
     THEN /\ native' = [native EXCEPT ![local[t]] = "destroying"]
          /\ pc' = [pc EXCEPT ![t] = "hi_destroy"]
          /\ UNCHANGED <<lock, local>>
     ELSE /\ lock' = NoThread
          /\ local' = [local EXCEPT ![t] = NoCtx]
          /\ pc' = [pc EXCEPT ![t] = "idle"]
          /\ UNCHANGED native
  /\ UNCHANGED <<weak, held, result, nctx, lastEnum, sharedDrop>>

\* The native destructor started by has_instance_drop returns; the guard is
\* released after it.
has_instance_finish(t) ==
  /\ pc[t] = "hi_destroy"
  /\ native' = [native EXCEPT ![local[t]] = "destroyed"]
  /\ local' = [local EXCEPT ![t] = NoCtx]
  /\ lock' = NoThread
  /\ pc' = [pc EXCEPT ![t] = "idle"]
  /\ UNCHANGED <<weak, strong, held, result, nctx, lastEnum, sharedDrop>>


(* ========================== the device session ========================= *)

\* The largest LED level set_led_settings accepts.
MaxLevel == 1000

LedModes == {"Constant", "Blink", "Other"}

\* LedSettings values around every limit set_led_settings checks.
LedInputs == [id : {0, 1, 2}, mode : LedModes,
              start_level : {0, MaxLevel, MaxLevel + 1},
              stop_level : {0, MaxLevel, MaxLevel + 1},
              interval_ms : {0, 1}]

NoLed == [id |-> 0, mode |-> "none", start_level |-> 0, stop_level |-> 0,
          interval_ms |-> 0]

\* What a native call that returns Result<bool> can do, and one that
\* returns Result<()> or Result<String>.
NativeBool == {"true", "false", "throw"}

NativeUnit == {"ok", "throw"}

\* The errors of the device operations fall in three classes: the session
\* is in the wrong state, an argument is out of range, the native call failed.
ErrClass(e) ==
  CASE e \in {"Closed", "NotStopped", "NotStarted"} -> "state"
    [] e \in {"NoStream", "Mode", "Id", "StartLevel", "StopLevel", "Interval"} -> "argument"
    [] e \in {"NativeFalse", "NativeThrow"} -> "native"
    [] OTHER -> "none"

\* Freenect2Device::new: neither started nor closed.
DeviceInit ==
  /\ started = FALSE
  /\ closed = FALSE
  /\ everStarted = FALSE
  /\ attached = {}
  /\ last = [op |-> "new", color |-> FALSE, depth |-> FALSE, led |-> NoLed,
             preStarted |-> FALSE, preClosed |-> FALSE, preEver |-> FALSE,
             ret |-> "ok", native |-> "none"]

\* The record of an operation that has returned `ret` after the native
\* call `nat` ("none": no native call was made).
Returned(op, color, depth, led, ret, nat) ==
  last' = [op |-> op, color |-> color, depth |-> depth, led |-> led,
           preStarted |-> started, preClosed |-> closed, preEver |-> everStarted,
           ret |-> ret, native |-> nat]

\* An operation whose checks pass and whose native call returns a value or
\* throws; it changes no flag of the session.
Query(op, check, nat) ==
  /\ IF check # "ok"
     THEN Returned(op, FALSE, FALSE, NoLed, check, "none")
     ELSE \E r \in NativeUnit :
            Returned(op, FALSE, FALSE, NoLed,
                     IF r = "ok" THEN "ok" ELSE "NativeThrow", nat)
  /\ UNCHANGED <<started, closed, everStarted, attached>>

get_serial_number_unchecked == "ok"

\* get_serial_number, lines 37-40.
get_serial_number_check == IF closed THEN "Closed" ELSE "ok"

\* get_firmware_version, lines 57-60.
get_firmware_version_check == IF closed THEN "Closed" ELSE "ok"

get_serial_number == Query("get_serial_number", get_serial_number_check, "get_serial_number")

get_firmware_version ==
  Query("get_firmware_version", get_firmware_version_check, "get_firmware_version")

start_check_closed_only == IF closed THEN "Closed" ELSE "ok"

\* start, lines 78-85.
start_check ==
  IF closed THEN "Closed" ELSE IF started THEN "NotStopped" ELSE "ok"

start_streams_check_no_arg(color, depth) ==
  IF closed THEN "Closed" ELSE IF started THEN "NotStopped" ELSE "ok"

\* start_streams, lines 112-120.
start_streams_check(color, depth) ==
  IF ~(color \/ depth) THEN "NoStream"
  ELSE IF closed THEN "Closed"
  ELSE IF started THEN "NotStopped"
  ELSE "ok"

started_after_start_unchecked(r) == IF r = "throw" THEN started ELSE TRUE

\* start, lines 93-97, and start_streams, lines 128-132: the result is
\* checked first, then self.started = started.
started_after_start(r) == IF r = "true" THEN TRUE ELSE started

\* The shared tail of start and start_streams (lines 87-99, 122-134): the
\* native call, and self.started = started when it returned true.
Starting(op, color, depth, check, nat) ==
  IF check # "ok"
  THEN /\ Returned(op, color, depth, NoLed, check, "none")
       /\ UNCHANGED <<started, closed, everStarted, attached>>
  ELSE \E r \in NativeBool :
         /\ Returned(op, color, depth, NoLed,
                     CASE r = "true" -> "ok"
                       [] r = "false" -> "NativeFalse"
                       [] OTHER -> "NativeThrow", nat)
         /\ started' = started_after_start(r)
         /\ everStarted' = (everStarted \/ r = "true")
         /\ UNCHANGED <<closed, attached>>

start == Starting("start", FALSE, FALSE, start_check, "start")

start_streams(color, depth) ==
  Starting("start_streams", color, depth, start_streams_check(color, depth),
           "start_streams")

stop_check_closed_only == IF closed THEN "Closed" ELSE "ok"

\* stop, lines 143-150.
stop_check ==
  IF closed THEN "Closed" ELSE IF ~started THEN "NotStarted" ELSE "ok"

started_after_stop_kept(r) == started

\* stop, lines 159-163: the result is checked first, then
\* self.started = !stopped.
started_after_stop(r) == IF r = "true" THEN FALSE ELSE started

\* stop, lines 152-165: self.started = !stopped when the native stop
\* returned true.
stop ==
  IF stop_check # "ok"
  THEN /\ Returned("stop", FALSE, FALSE, NoLed, stop_check, "none")
       /\ UNCHANGED <<started, closed, everStarted, attached>>
  ELSE \E r \in NativeBool :
         /\ Returned("stop", FALSE, FALSE, NoLed,
                     CASE r = "true" -> "ok"
                       [] r = "false" -> "NativeFalse"
                       [] OTHER -> "NativeThrow", "stop")
         /\ started' = started_after_stop(r)
         /\ UNCHANGED <<closed, everStarted, attached>>

\* close, lines 174-177.
close_check == IF closed THEN "Closed" ELSE "ok"

closed_after_close_unchecked(r) == IF r = "throw" THEN closed ELSE TRUE

\* close, lines 186-188: ensure!(closed) comes before self.closed = closed,
\* so the flag is set only when the native close returned true.
closed_after_close(r) == IF r = "true" THEN TRUE ELSE closed

\* close, lines 179-192: self.closed = closed when the native close
\* returned true; started is left as it is.
close ==
  IF close_check # "ok"
  THEN /\ Returned("close", FALSE, FALSE, NoLed, close_check, "none")
       /\ UNCHANGED <<started, closed, everStarted, attached>>
  ELSE \E r \in NativeBool :
         /\ Returned("close", FALSE, FALSE, NoLed,
                     CASE r = "true" -> "ok"
                       [] r = "false" -> "NativeFalse"
                       [] OTHER -> "NativeThrow", "close")
         /\ closed' = closed_after_close(r)
         /\ UNCHANGED <<started, everStarted, attached>>

\* set_color_frame_listener, lines 207-210.
set_color_frame_listener_check == IF closed THEN "Closed" ELSE "ok"

\* set_ir_and_depth_frame_listener, lines 234-241: the body makes the
\* native call at once; no flag of the session is read.
set_ir_and_depth_frame_listener_check == "ok"

\* set_config, lines 255-258: only the closed flag is read.
set_config_check == IF closed THEN "Closed" ELSE "ok"

\* An operation that hands the native device a reference it keeps (a
\* listener, a configuration) when the native call does not throw.
Attach(op, check, what) ==
  IF check # "ok"
  THEN /\ Returned(op, FALSE, FALSE, NoLed, check, "none")
       /\ UNCHANGED <<started, closed, everStarted, attached>>
  ELSE \E r \in NativeUnit :
         /\ Returned(op, FALSE, FALSE, NoLed,
                     IF r = "ok" THEN "ok" ELSE "NativeThrow", op)
         /\ attached' = (IF r = "ok" THEN attached \cup {what} ELSE attached)
         /\ UNCHANGED <<started, closed, everStarted>>

set_color_frame_listener ==
  Attach("set_color_frame_listener", set_color_frame_listener_check, "color")

set_ir_and_depth_frame_listener ==
  Attach("set_ir_and_depth_frame_listener", set_ir_and_depth_frame_listener_check,
         "ir_depth")

set_config == Attach("set_config", set_config_check, "config")

get_registration_check_closed_only == IF closed THEN "Closed" ELSE "ok"

\* get_registration, lines 277-284.
get_registration_check ==
  IF closed THEN "Closed" ELSE IF ~started THEN "NotStarted" ELSE "ok"

get_registration == Query("get_registration", get_registration_check, "get_registration")

set_led_settings_check_no_interval(s) ==
  IF closed THEN "Closed"
  ELSE IF ~started THEN "NotStarted"
  ELSE IF ~(s.mode = "Constant" \/ s.mode = "Blink") THEN "Mode"
  ELSE IF ~(s.id = 0 \/ s.id = 1) THEN "Id"
  ELSE IF ~(s.start_level <= MaxLevel) THEN "StartLevel"
  ELSE IF ~(s.stop_level <= MaxLevel) THEN "StopLevel"
  ELSE "ok"

\* set_led_settings, lines 325-349, in the order of the checks.
set_led_settings_check(s) ==
  IF closed THEN "Closed"
  ELSE IF ~started THEN "NotStarted"
  ELSE IF ~(s.mode = "Constant" \/ s.mode = "Blink") THEN "Mode"
  ELSE IF ~(s.id = 0 \/ s.id = 1) THEN "Id"
  ELSE IF ~(s.start_level <= MaxLevel) THEN "StartLevel"
  ELSE IF ~(s.stop_level <= MaxLevel) THEN "StopLevel"
  ELSE IF ~(s.mode # "Blink" \/ s.interval_ms > 0) THEN "Interval"
  ELSE "ok"

set_led_settings(s) ==
  /\ IF set_led_settings_check(s) # "ok"
     THEN Returned("set_led_settings", FALSE, FALSE, s, set_led_settings_check(s), "none")
     ELSE \E r \in NativeUnit :
            Returned("set_led_settings", FALSE, FALSE, s,
                     IF r = "ok" THEN "ok" ELSE "NativeThrow", "set_led_settings")
  /\ UNCHANGED <<started, closed, everStarted, attached>>

(* ======================= the multi-frame aggregator ==================== *)

\* frame_type.rs: the three frame types.
FrameTypeSet == {"Color", "Ir", "Depth"}

\* Option::None in a slot of a FrameMap (frames are numbered from 1).
NoFrame == 0

\* The receiver mutex when no consumer holds it.
NoHolder == 0

\* The native device has two listener slots, each served by its own stream
\* thread: the colour stream delivers Color frames, the depth stream
\* delivers Ir and Depth frames.  One MultiFrameListener may sit in both.
StreamThreads == {"color_stream", "depth_stream"}

\* The FrameMap mutex when no stream thread holds it.
Unlocked == "unlocked"

\* The FrameMap mutex after a thread panicked while holding it
\* (std::sync::Mutex poisoning): free, and every lock() returns Err.
Poisoned == "poisoned"

DeliveredBy(t) == IF t = "color_stream" THEN {"Color"} ELSE {"Ir", "Depth"}

\* The consumers of a behaviour with one MultiFrameListener.
Consumers == 1..NumConsumers

\* Every thread that may call the listener; the consumers are among them.
Callers == 1..NumCallers

\* FrameMap::default(): every slot is None.
FrameMapDefault == [ty \in FrameTypeSet |-> NoFrame]

NoSet == [kind |-> "none", map |-> FrameMapDefault, seq |-> 0]

CbIdle == [pc |-> "idle", ty |-> "Color", frame |-> NoFrame]

\* A consumer: where it is, the call it is in, what is left of the timeout
\* it passed (timer: the whole of it until recv_timeout starts), the time it
\* was blocked at the receiver's mutex while time passed (waited), and what
\* the last call returned.
ConsumerIdle == [pc |-> "idle", mode |-> "none", timer |-> 0, waited |-> FALSE, got |-> NoSet]

\* No MultiFrameListener has been constructed yet.
ListenerInit ==
  /\ created = FALSE
  /\ types = {}
  /\ newCall = [arg |-> {}, ret |-> "none"]
  /\ frames = FrameMapDefault
  /\ fmutex = Unlocked
  /\ cb = [t \in StreamThreads |-> CbIdle]
  /\ chan = <<>>
  /\ nframes = 0
  /\ nsets = 0
  /\ rxlock = NoHolder
  /\ consumer = [c \in Callers |-> ConsumerIdle]
  /\ nrecv = 0
  /\ elem = "none"
  /\ views = {}
  /\ hist = [base |-> 0, since |-> <<>>]

\* FrameTypes::new, lines 244-250: one flag per type, set when the slice
\* contains the type.
FrameTypesNew(frame_types) == {ty \in FrameTypeSet : ty \in frame_types}

\* The type parameter of MultiFrameListener, lines 260-266: OwnedFrame and
\* Frame (the aliases of lines 253-256), or a type of the caller's with its
\* own From<Frame>.
ElemTypes == {"OwnedFrame", "Frame", "Caller"}

multi_new_check_none(frame_types) == "ok"

\* MultiFrameListener::new, lines 289-292.
multi_new_check(frame_types) == IF frame_types = {} THEN "NoTypes" ELSE "ok"

\* MultiFrameListener::new: the check, then the FrameMap, the FrameTypes,
\* the channel and the FrameListener, whose native constructor may throw.
\* T is the type of the frames the listener keeps and returns (recorded
\* where frames carry identities: nothing else depends on it).
multi_new(T, frame_types) ==
  /\ ~created
  /\ IF multi_new_check(frame_types) # "ok"
     THEN /\ newCall' = [arg |-> frame_types, ret |-> multi_new_check(frame_types)]
          /\ UNCHANGED <<created, types, elem>>
     ELSE \E r \in NativeUnit :
            /\ newCall' = [arg |-> frame_types,
                           ret |-> IF r = "ok" THEN "ok" ELSE "NativeThrow"]
            /\ created' = (r = "ok")
            /\ types' = (IF r = "ok" THEN FrameTypesNew(frame_types) ELSE types)
            /\ elem' = (IF r = "ok" /\ counting THEN T ELSE elem)
  /\ UNCHANGED <<frames, fmutex, cb, chan, nframes, nsets, counting, rxlock,
                 consumer, nrecv, views, callers, hist>>

contains_values_any(m, tys) == \E ty \in tys : m[ty] # NoFrame

\* FrameMap::contains_values, lines 148-152.
contains_values(m, tys) ==
  /\ ("Color" \notin tys \/ m["Color"] # NoFrame)
  /\ ("Ir" \notin tys \/ m["Ir"] # NoFrame)
  /\ ("Depth" \notin tys \/ m["Depth"] # NoFrame)

frames_lock_not_exclusive(m) == IF m = Poisoned THEN "PoisonError" ELSE "ok"

\* Mutex::lock on the FrameMap, lines 300-302: the caller gets the guard
\* when no other thread holds it, and Err when the mutex is poisoned.
frames_lock(m) ==
  IF m = Poisoned THEN "PoisonError" ELSE IF m = Unlocked THEN "ok" ELSE "blocked"

\* The identity of the next frame and the number of the next set.
NextFrame == IF counting THEN nframes + 1 ELSE 1

NextSet == IF counting THEN nsets + 1 ELSE 0

\* The callback, lines 300-302: a stream thread enters with a frame of a
\* type it delivers and takes the FrameMap mutex.  The number of frames and
\* the length of the queue are capped; where frames carry no identity a
\* frame enters only once the queued set has been received.
cb_lock(t, ty) ==
  /\ created
  /\ cb[t].pc = "idle"
  /\ ty \in DeliveredBy(t)
  /\ frames_lock(fmutex) = "ok"
  /\ IF counting THEN nframes < MaxFrames /\ Len(chan) < MaxQueue ELSE chan = <<>>
  /\ fmutex' = t
  /\ nframes' = (IF counting THEN nframes + 1 ELSE nframes)
  /\ cb' = [cb EXCEPT ![t] = [pc |-> "insert", ty |-> ty, frame |-> NextFrame]]
  /\ views' = (IF counting THEN views \cup {NextFrame} ELSE views)
  /\ hist' = (IF counting THEN [hist EXCEPT !.since = Append(@, ty)] ELSE hist)
  /\ UNCHANGED <<created, types, newCall, frames, chan, nsets, counting, rxlock,
                 consumer, nrecv, elem, callers>>

\* The callback, lines 300-302, on a poisoned mutex: lock() returns Err, the
\* closure returns the error and the frame is dropped without being stored.
cb_lock_poisoned(t, ty) ==
  /\ created
  /\ cb[t].pc = "idle"
  /\ ty \in DeliveredBy(t)
  /\ frames_lock(fmutex) = "PoisonError"
  /\ IF counting THEN nframes < MaxFrames ELSE TRUE
  /\ nframes' = (IF counting THEN nframes + 1 ELSE nframes)
  /\ hist' = (IF counting THEN [hist EXCEPT !.since = Append(@, "refused")] ELSE hist)
  /\ UNCHANGED <<created, types, newCall, frames, fmutex, cb, chan, nsets, counting,
                 rxlock, consumer, nrecv, elem, views, callers>>

insert_keeps_first(m, ty, frame) == IF m[ty] # NoFrame THEN m ELSE [m EXCEPT ![ty] = frame]

\* FrameMap::insert, lines 124-130: the slot of the type is overwritten.
insert(m, ty, frame) == [m EXCEPT ![ty] = frame]

OwnedFrame_from_keeps_frame(vs, frame) == vs

\* From<Frame> for OwnedFrame, frame.rs lines 594-598: the frame is copied
\* by to_owned and dropped when from returns, which releases the native
\* Frame.
OwnedFrame_from(vs, frame) == vs \ {frame}

\* T::from(frame), line 303: for T = Frame the frame itself is the value.
T_from(T, vs, frame) == IF T = "OwnedFrame" THEN OwnedFrame_from(vs, frame) ELSE vs

\* The frames a FrameMap holds.
FramesOf(m) == {m[ty] : ty \in FrameTypeSet} \ {NoFrame}

\* The callback, line 303: the frame is converted and stored; the value
\* the slot held before is dropped.
cb_insert(t) ==
  /\ cb[t].pc = "insert"
  /\ frames' = insert(frames, cb[t].ty, cb[t].frame)
  /\ cb' = [cb EXCEPT ![t].pc = "check"]
  /\ views' = T_from(elem, views \ {frames[cb[t].ty]}, cb[t].frame)
  /\ UNCHANGED <<created, types, newCall, fmutex, chan, nframes, nsets, counting,
                 rxlock, consumer, nrecv, elem, callers, hist>>

\* The callback, line 303, when T::from panics (a From of the caller's; the
\* conversions of OwnedFrame and Frame do not): the frame is dropped, the
\* unwinding drops the mutex guard, which poisons the mutex, and catch_unwind
\* in FrameListener::new (lines 51-54) turns the panic into an error.
cb_panic(t) ==
  /\ cb[t].pc = "insert"
  /\ elem = "Caller"
  /\ fmutex' = Poisoned
  /\ cb' = [cb EXCEPT ![t] = CbIdle]
  /\ views' = views \ {cb[t].frame}
  /\ hist' = (IF counting
              THEN [hist EXCEPT !.since[cb[t].frame - hist.base] = "panicked"]
              ELSE hist)
  /\ UNCHANGED <<created, types, newCall, frames, chan, nframes, nsets, counting,
                 rxlock, consumer, nrecv, elem, callers>>

take_keeps_unrequired(m) == [ty \in FrameTypeSet |-> IF ty \in types THEN NoFrame ELSE m[ty]]

\* std::mem::take on the FrameMap, line 306: what is left behind.
take(m) == FrameMapDefault

send_in_front(q, set) == <<set>> \o q

send_replaces(q, set) == <<set>>

send_loses(q, set) == q

\* tx.send on the channel of std::sync::mpsc::channel(), lines 296 and 307:
\* the set is queued behind the sets not yet received.
send(q, set) == Append(q, set)

\* The callback, lines 305-310: a complete map is taken and sent; the mutex
\* guard is dropped when the closure returns.
cb_check(t) ==
  /\ cb[t].pc = "check"
  /\ IF contains_values(frames, types)
     THEN /\ chan' = send(chan, [kind |-> "set", map |-> frames, seq |-> NextSet])
          /\ frames' = take(frames)
          /\ nsets' = (IF counting THEN nsets + 1 ELSE nsets)
          /\ hist' = (IF counting THEN [base |-> nframes, since |-> <<>>] ELSE hist)
     ELSE UNCHANGED <<chan, frames, nsets, hist>>
  /\ fmutex' = Unlocked
  /\ cb' = [cb EXCEPT ![t] = CbIdle]
  /\ UNCHANGED <<created, types, newCall, nframes, counting, rxlock, consumer, nrecv,
                 elem, views, callers>>

\* get_frames is called: the consumer waits for the receiver's mutex.
get_frames(c) ==
  /\ created
  /\ c \in callers
  /\ consumer[c].pc = "idle"
  /\ consumer' = [consumer EXCEPT ![c] =
                    [pc |-> "wait_lock", mode |-> "block", timer |-> 0, waited |-> FALSE,
                     got |-> NoSet]]
  /\ views' = views \ FramesOf(consumer[c].got.map)
  /\ UNCHANGED <<created, types, newCall, frames, fmutex, cb, chan, nframes, nsets,
                 counting, rxlock, nrecv, elem, callers, hist>>

\* get_frames_with_timeout(timeout) is called.
get_frames_with_timeout(c, timeout) ==
  /\ created
  /\ c \in callers
  /\ consumer[c].pc = "idle"
  /\ consumer' = [consumer EXCEPT ![c] =
                    [pc |-> "wait_lock", mode |-> "timeout", timer |-> timeout,
                     waited |-> FALSE, got |-> NoSet]]
  /\ views' = views \ FramesOf(consumer[c].got.map)
  /\ UNCHANGED <<created, types, newCall, frames, fmutex, cb, chan, nframes, nsets,
                 counting, rxlock, nrecv, elem, callers, hist>>

\* self.rx.lock(), lines 320-323 and 340-343.
rx_lock(c) ==
  /\ consumer[c].pc = "wait_lock"
  /\ rxlock = NoHolder
  /\ rxlock' = c
  /\ consumer' = [consumer EXCEPT ![c].pc = "recv"]
  /\ UNCHANGED <<created, types, newCall, frames, fmutex, cb, chan, nframes, nsets,
                 counting, nrecv, elem, views, callers, hist>>

recv_timeout_ignores_queue(q, mode, timer) ==
  IF mode = "timeout" /\ timer = 0 THEN "timeout"
  ELSE IF q # <<>> THEN "set" ELSE "blocked"

\* Receiver::recv and Receiver::recv_timeout on a channel whose sender is
\* alive: a queued set is received, also after the deadline; with none
\* queued recv blocks and recv_timeout blocks until the deadline.
recv_outcome(q, mode, timer) ==
  IF q # <<>> THEN "set"
  ELSE IF mode = "timeout" /\ timer = 0 THEN "timeout"
  ELSE "blocked"

\* The consumer after its call has returned res: the call's timeout and
\* clock are gone with the call.
Returned_from(con, res) ==
  [pc |-> "idle", mode |-> con.mode, timer |-> 0, waited |-> FALSE, got |-> res]

\* rx.recv() and rx.recv_timeout(timeout), lines 324 and 344: the consumer
\* returns, which drops the mutex guard.
recv(c) ==
  /\ consumer[c].pc = "recv"
  /\ LET out == recv_outcome(chan, consumer[c].mode, consumer[c].timer) IN
       /\ out # "blocked"
       /\ IF out = "set"
          THEN /\ consumer' = [consumer EXCEPT ![c] = Returned_from(@, Head(chan))]
               /\ chan' = Tail(chan)
               /\ nrecv' = (IF counting THEN nrecv + 1 ELSE nrecv)
          ELSE /\ consumer' = [consumer EXCEPT ![c] =
                                 Returned_from(@, [kind |-> "timeout",
                                                   map |-> FrameMapDefault, seq |-> 0])]
               /\ UNCHANGED <<chan, nrecv>>
  /\ rxlock' = NoHolder
  /\ UNCHANGED <<created, types, newCall, frames, fmutex, cb, nframes, nsets, counting,
                 elem, views, callers, hist>>

\* Consumer c waits in recv_timeout before its deadline.
InRecvTimeout(c) ==
  consumer[c].pc = "recv" /\ consumer[c].mode = "timeout" /\ consumer[c].timer > 0

\* Consumer c waits in self.rx.lock() (lines 340-343) of
\* get_frames_with_timeout while the consumer that holds the receiver's
\* mutex is blocked in recv or recv_timeout: lock() has no deadline.
InLockWait(c) ==
  /\ consumer[c].pc = "wait_lock"
  /\ consumer[c].mode = "timeout"
  /\ rxlock # NoHolder
  /\ recv_outcome(chan, consumer[rxlock].mode, consumer[rxlock].timer) = "blocked"

\* One unit of time passes for every caller: the deadline of a recv_timeout
\* comes nearer, and a get_frames_with_timeout that is blocked at the mutex
\* has waited there.
tick ==
  /\ \E c \in Callers : InRecvTimeout(c) \/ (InLockWait(c) /\ ~consumer[c].waited)
  /\ consumer' = [c \in Callers |->
                    IF InRecvTimeout(c) THEN [consumer[c] EXCEPT !.timer = @ - 1]
                    ELSE IF InLockWait(c) THEN [consumer[c] EXCEPT !.waited = TRUE]
                    ELSE consumer[c]]
  /\ UNCHANGED <<created, types, newCall, frames, fmutex, cb, chan, nframes, nsets,
                 counting, rxlock, nrecv, elem, views, callers, hist>>

(* ========================= the callback bridge ========================= *)

\* A string is modelled as the sequence of its non-empty pieces, so that the
\* empty string is the empty sequence and concatenation is \o.
Str(piece) == IF piece = "" THEN <<>> ELSE <<piece>>

\* What the user closure does in one invocation: it returns Ok(()), returns
\* Err(e), or panics.  An error has a message, possibly a cause, and a
\* backtrace when the environment has backtraces switched on.
ClosureOutcomes ==
  {[kind |-> "Ok", msg |-> "", cause |-> "", bt |-> FALSE]}
    \cup [kind : {"Err"}, msg : {"", "Test"}, cause : {"", "io"}, bt : BOOLEAN]
    \cup [kind : {"Panic"}, msg : {""}, cause : {""}, bt : BOOLEAN]

BridgeInit ==
  /\ blistener = "none"
  /\ calls = <<>>
  /\ aborted = FALSE

\* FrameListener::new and FrameListener::new_no_panic: both end in
\* create_self, whose native constructor may throw.
FrameListener_new ==
  /\ blistener = "none"
  /\ \E r \in NativeUnit : blistener' = (IF r = "ok" THEN "new" ELSE "none")
  /\ UNCHANGED <<calls, aborted>>

new_no_panic ==
  /\ blistener = "none"
  /\ \E r \in NativeUnit : blistener' = (IF r = "ok" THEN "new_no_panic" ELSE "none")
  /\ UNCHANGED <<calls, aborted>>

func_new_uncaught(out) == out

\* The closure stored by FrameListener::new, lines 48-55: catch_unwind turns
\* a panic into Err(anyhow!("{:?}", e)), e being the Box<dyn Any + Send>
\* payload, whose Debug output is "Any { .. }".
func_new(out) ==
  IF out.kind = "Panic"
  THEN [kind |-> "Err", msg |-> "Any { .. }", cause |-> "", bt |-> out.bt]
  ELSE out

\* The closure stored by new_no_panic, line 75: the user closure itself.
func_no_panic(out) == out

\* format!("{:?}", e) of an anyhow::Error, line 86: the message, then the
\* chain of causes, then the backtrace if one was captured.
DebugFormat(e) ==
  Str(e.msg)
    \o (IF e.cause # "" THEN <<"\n\nCaused by:\n    ", e.cause>> ELSE <<>>)
    \o (IF e.bt THEN <<"\n\nStack backtrace:\n", "frames">> ELSE <<>>)

\* The callback handed to create_frame_listener, lines 85-88.
on_new_frame_result(res) == IF res.kind = "Err" THEN DebugFormat(res) ELSE <<>>

\* What the native side takes the returned string for: "" is what Ok is
\* turned into (line 87), everything else is an error message.
ReportsError(str) == str # <<>>

\* One invocation of the callback by the native side, lines 81-89.  A panic
\* caught by the closure of FrameListener::new is logged (line 52); one that
\* leaves the closure of new_no_panic reaches the native boundary and
\* aborts the process (lines 60-71).
on_new_frame(ty, out) ==
  /\ blistener # "none"
  /\ ~aborted
  /\ Len(calls) < MaxCalls
  /\ LET res == IF blistener = "new" THEN func_new(out) ELSE func_no_panic(out) IN
       IF res.kind = "Panic"
       THEN /\ aborted' = TRUE
            /\ calls' = Append(calls, [ty |-> ty, out |-> out, returned |-> FALSE,
                                       logged |-> FALSE, str |-> <<>>])
       ELSE /\ aborted' = FALSE
            /\ calls' = Append(calls, [ty |-> ty, out |-> out, returned |-> TRUE,
                                       logged |-> (out.kind = "Panic"),
                                       str |-> on_new_frame_result(res)])
  /\ UNCHANGED blistener

(* ======================== the depth configuration ====================== *)

\* An f32 is either NaN or a number; the numbers of the model are whole
\* numbers of half metres.
F32(v) == [nan |-> FALSE, val |-> v]

NaN == [nan |-> TRUE, val |-> 0]

DepthInputs == {F32(v) : v \in -1..MaxDepthUnits} \cup {NaN}

\* The comparisons of f32: every comparison with NaN is false.
Gt(a, b) == ~a.nan /\ ~b.nan /\ a.val > b.val

Lt(a, b) == ~a.nan /\ ~b.nan /\ a.val < b.val

Le(a, b) == ~a.nan /\ ~b.nan /\ a.val <= b.val

Ge(a, b) == ~a.nan /\ ~b.nan /\ a.val >= b.val

Zero == F32(0)

\* Config::new, lines 28-39: min depth 0.5, max depth 4.5, both filters on.
DefaultMinDepth == F32(1)

DefaultMaxDepth == F32(9)

ConfigInit ==
  /\ cfgMin = DefaultMinDepth
  /\ cfgMax = DefaultMaxDepth
  /\ cfgLast = [op |-> "new", arg |-> Zero, preMin |-> DefaultMinDepth,
                preMax |-> DefaultMaxDepth, ret |-> "ok"]
  /\ cfgBilateral = TRUE
  /\ cfgEdgeAware = TRUE

\* get_min_depth and get_max_depth, lines 42-44 and 63-65.
get_min_depth == cfgMin

get_max_depth == cfgMax

set_min_depth_check_below_max_only(min_depth) ==
  IF ~Lt(min_depth, cfgMax) THEN "NotBelowMax" ELSE "ok"

set_min_depth_check_positive_only(min_depth) ==
  IF ~Gt(min_depth, Zero) THEN "NotPositive" ELSE "ok"

\* set_min_depth, lines 47-51.
set_min_depth_check(min_depth) ==
  IF ~Gt(min_depth, Zero) THEN "NotPositive"
  ELSE IF ~Lt(min_depth, get_max_depth) THEN "NotBelowMax"
  ELSE "ok"

\* set_min_depth, lines 46-60.
set_min_depth(min_depth) ==
  /\ cfgLast' = [op |-> "set_min_depth", arg |-> min_depth, preMin |-> cfgMin,
                 preMax |-> cfgMax, ret |-> set_min_depth_check(min_depth)]
  /\ cfgMin' = (IF set_min_depth_check(min_depth) = "ok" THEN min_depth ELSE cfgMin)
  /\ UNCHANGED <<cfgMax, cfgBilateral, cfgEdgeAware>>

set_max_depth_check_none(max_depth) == "ok"

\* set_max_depth, lines 68-71.
set_max_depth_check(max_depth) ==
  IF ~Gt(max_depth, get_min_depth) THEN "NotAboveMin" ELSE "ok"

\* set_max_depth, lines 67-80.
set_max_depth(max_depth) ==
  /\ cfgLast' = [op |-> "set_max_depth", arg |-> max_depth, preMin |-> cfgMin,
                 preMax |-> cfgMax, ret |-> set_max_depth_check(max_depth)]
  /\ cfgMax' = (IF set_max_depth_check(max_depth) = "ok" THEN max_depth ELSE cfgMax)
  /\ UNCHANGED <<cfgMin, cfgBilateral, cfgEdgeAware>>

\* set_enable_bilateral_filter, lines 88-95: the toggle is handed to the
\* native Config, which stores it.
set_enable_bilateral_filter(enable) ==
  /\ cfgLast' = [op |-> "set_enable_bilateral_filter", arg |-> Zero,
                 preMin |-> cfgMin, preMax |-> cfgMax, ret |-> "ok"]
  /\ cfgBilateral' = enable
  /\ UNCHANGED <<cfgMin, cfgMax, cfgEdgeAware>>

\* set_enable_edge_aware_filter, lines 104-111.
set_enable_edge_aware_filter(enable) ==
  /\ cfgLast' = [op |-> "set_enable_edge_aware_filter", arg |-> Zero,
                 preMin |-> cfgMin, preMax |-> cfgMax, ret |-> "ok"]
  /\ cfgEdgeAware' = enable
  /\ UNCHANGED <<cfgMin, cfgMax, cfgBilateral>>

(* ============================== the frames ============================= *)

\* ffi::libfreenect2::FrameFormat, ffi.rs lines 25-38, and any other number
\* the native side may send.
FfiFormats == {"Invalid", "Raw", "Float", "BGRX", "RGBX", "Gray", "Other"}

\* frame.rs, FrameFormat, lines 38-52.
FrameFormats == {"Invalid", "Raw", "Float", "RGBX", "BGRX", "Gray"}

\* From<ffi::libfreenect2::FrameFormat> for FrameFormat, lines 69-79.
FrameFormat_from(value) == IF value \in FrameFormats \ {"Invalid"} THEN value ELSE "Invalid"

\* From<FrameFormat> for ffi::libfreenect2::FrameFormat, lines 82-92.
FrameFormat_into(value) == value

\* A buffer of len bytes; byte i of it is (seed + i) mod 256.
Buffer(len, seed) == [len |-> len, seed |-> seed]

Byte(buf, i) == (buf.seed + i) % 256

\* A buffer without a pointer (std::ptr::null_mut()).
NullBuffer == [len |-> 0, seed |-> -1]

\* The contents of the buffers of the model.
Seeds == {0, 250}

\* The remaining fields of a native frame: those of a frame built by a
\* factory (lines 352-359), and a sample in which all differ.
FactoryMeta ==
  [timestamp |-> 0, sequence |-> 0, exposure |-> F32(0), gain |-> F32(0),
   gamma |-> F32(0), status |-> 0]

SampleMeta ==
  [timestamp |-> 266, sequence |-> 7, exposure |-> F32(1), gain |-> F32(2),
   gamma |-> NaN, status |-> 1]

\* The native frame made by create_frame (ffi.rs lines 213-225): it has the
\* fields given, and its buffer is the one given or, for a null pointer, a
\* fresh one of width * height * bytes_per_pixel bytes.
create_frame(width, height, bytes_per_pixel, data, meta, format, fresh) ==
  [width |-> width, height |-> height, bytes_per_pixel |-> bytes_per_pixel,
   data |-> IF data = NullBuffer
            THEN Buffer(width * height * bytes_per_pixel, fresh)
            ELSE data,
   meta |-> meta, format |-> format]

Frame_new_len_in_pixels(inner) ==
  [inner |-> inner, width |-> inner.width, height |-> inner.height,
   bytes_per_pixel |-> inner.bytes_per_pixel,
   raw_data |-> Buffer(inner.width * inner.height, inner.data.seed)]

\* Frame::new, lines 322-336: width, height and bytes_per_pixel are read
\* once, and raw_data is a slice of their product over the native buffer.
Frame_new(inner) ==
  [inner |-> inner, width |-> inner.width, height |-> inner.height,
   bytes_per_pixel |-> inner.bytes_per_pixel,
   raw_data |-> Buffer(inner.width * inner.height * inner.bytes_per_pixel,
                       inner.data.seed)]

\* impl Freenect2Frame for Frame, lines 440-484.
format(f) == FrameFormat_from(f.inner.format)

raw_data_len(f) == f.width * f.height * f.bytes_per_pixel

\* Frame::depth, lines 347-363.
Frame_depth(fresh) ==
  Frame_new(create_frame(512, 424, 4, NullBuffer, FactoryMeta, "Float", fresh))

\* Frame::color_for_depth, lines 372-388.
Frame_color_for_depth(fresh) ==
  Frame_new(create_frame(512, 424, 4, NullBuffer, FactoryMeta, "RGBX", fresh))

\* Frame::depth_full_color, lines 396-412.
Frame_depth_full_color(fresh) ==
  Frame_new(create_frame(1920, 1082, 4, NullBuffer, FactoryMeta, "Float", fresh))

to_owned_swaps_gain(f) ==
  [width |-> f.width, height |-> f.height, bytes_per_pixel |-> f.bytes_per_pixel,
   data |-> f.raw_data,
   meta |-> [f.inner.meta EXCEPT !.gain = f.inner.meta.gamma,
                                 !.gamma = f.inner.meta.gain],
   format |-> format(f)]

\* Frame::to_owned, lines 417-431: every field is read from the frame and
\* the bytes of raw_data are copied into a Vec.
to_owned(f) ==
  [width |-> f.width, height |-> f.height, bytes_per_pixel |-> f.bytes_per_pixel,
   data |-> f.raw_data, meta |-> f.inner.meta, format |-> format(f)]

\* OwnedFrame::to_frame, lines 522-538: a native frame over the Vec.
to_frame(o) ==
  Frame_new(create_frame(o.width, o.height, o.bytes_per_pixel, o.data, o.meta,
                         FrameFormat_into(o.format), 0))

\* The outcome of reading a pixel: a panic, or the bytes that make the value.
Panic == [kind |-> "panic", index |-> 0, bytes |-> <<>>]

NoData == [kind |-> "no_data", index |-> 0, bytes |-> <<>>]

\* Indexing raw_data at index .. index + n: out of the slice it panics.
Bytes(f, index, n, order) ==
  IF index + n > f.raw_data.len
  THEN Panic
  ELSE [kind |-> "value", index |-> index,
        bytes |-> [k \in 1..n |-> Byte(f.raw_data, index + order[k])]]

InOrder == <<0, 1, 2, 3>>

\* The bytes of r, g, b and x in a BGRX pixel, lines 238-243 of frame.rs and
\* 383-388 of frame_data.rs.
BgrOrder == <<2, 1, 0, 3>>

\* The bytes get_pixel reads at index, by format, frame.rs lines 231-250.
ValueAt(f, index) ==
  CASE format(f) = "RGBX" -> Bytes(f, index, 4, InOrder)
    [] format(f) = "BGRX" -> Bytes(f, index, 4, BgrOrder)
    [] format(f) = "Float" -> Bytes(f, index, 4, InOrder)
    [] format(f) = "Raw" ->
         Bytes(f, index, f.bytes_per_pixel, [k \in 1..f.bytes_per_pixel |-> k - 1])
    [] OTHER -> Bytes(f, index, 1, InOrder)

get_pixel_unchecked(f, x, y) == ValueAt(f, (y * f.width + x) * f.bytes_per_pixel)

\* Freenect2Frame::get_pixel, frame.rs lines 227-251: both coordinates are
\* asserted to be in range before the index is computed.
get_pixel(f, x, y) ==
  IF ~(x < f.width) THEN Panic
  ELSE IF ~(y < f.height) THEN Panic
  ELSE ValueAt(f, (y * f.width + x) * f.bytes_per_pixel)

get_index_by_height(f, x, y) == (y * f.height + x) * f.bytes_per_pixel

\* FrameDataValue::_get_index, frame_data.rs lines 328-330.
get_index(f, x, y) == (y * f.width + x) * f.bytes_per_pixel

\* Freenect2Frame::data, frame.rs lines 275-287, followed by
\* FrameDataValue::get_pixel of the data, frame_data.rs lines 333-391: the
\* index is used as it is; an Invalid frame has no data to read.
data_get_pixel(f, x, y) ==
  CASE format(f) = "RGBX" -> Bytes(f, get_index(f, x, y), 4, InOrder)
    [] format(f) = "BGRX" -> Bytes(f, get_index(f, x, y), 4, BgrOrder)
    [] format(f) = "Float" -> Bytes(f, get_index(f, x, y), 4, InOrder)
    [] format(f) = "Invalid" -> NoData
    [] OTHER -> Bytes(f, get_index(f, x, y), 1, InOrder)

\* The frames the native side hands to a callback: any format, with the
\* bytes per pixel of the format (1 or 4 for a format without a fixed size).
BytesPerPixelOf(fmt) ==
  CASE fmt \in {"Float", "BGRX", "RGBX"} -> {4}
    [] fmt = "Gray" -> {1}
    [] OTHER -> {1, 4}

Nothing == [by |-> "none"]

NoPixel == [op |-> "none", x |-> 0, y |-> 0, out |-> NoData]

FrameInit ==
  /\ curFrame = Nothing
  /\ owned = Nothing
  /\ copied = Nothing
  /\ pixel = NoPixel

\* The Frame at hand comes into being; a behaviour follows one Frame.
NewFrame(by, f) ==
  /\ curFrame = Nothing
  /\ curFrame' = [by |-> by, f |-> f]
  /\ UNCHANGED <<owned, copied, pixel>>

\* frame_listener.rs line 85: the bridge wraps the native frame it is called
\* with in Frame::new.
deliver(width, height, fmt, bytes_per_pixel, seed, meta) ==
  /\ bytes_per_pixel \in BytesPerPixelOf(fmt)
  /\ NewFrame("callback",
              Frame_new(create_frame(width, height, bytes_per_pixel,
                                     Buffer(width * height * bytes_per_pixel, seed),
                                     meta, fmt, seed)))

\* The three factories; the fresh buffer is not initialised.
make_depth == \E fresh \in Seeds : NewFrame("depth", Frame_depth(fresh))

make_color_for_depth ==
  \E fresh \in Seeds : NewFrame("color_for_depth", Frame_color_for_depth(fresh))

make_depth_full_color ==
  \E fresh \in Seeds : NewFrame("depth_full_color", Frame_depth_full_color(fresh))

call_to_owned ==
  /\ curFrame # Nothing
  /\ owned' = [by |-> "to_owned", o |-> to_owned(curFrame.f)]
  /\ copied' = Nothing
  /\ UNCHANGED <<curFrame, pixel>>

call_to_frame ==
  /\ owned # Nothing
  /\ copied' = [by |-> "to_frame", f |-> to_frame(owned.o)]
  /\ UNCHANGED <<curFrame, owned, pixel>>

call_get_pixel(x, y) ==
  /\ curFrame # Nothing
  /\ pixel' = [op |-> "get_pixel", x |-> x, y |-> y, out |-> get_pixel(curFrame.f, x, y)]
  /\ UNCHANGED <<curFrame, owned, copied>>

call_data_get_pixel(x, y) ==
  /\ curFrame # Nothing
  /\ pixel' = [op |-> "data_get_pixel", x |-> x, y |-> y,
               out |-> data_get_pixel(curFrame.f, x, y)]
  /\ UNCHANGED <<curFrame, owned, copied>>

(* ====================== iteration over frame data ====================== *)

\* No FrameRowIter at hand.
NoRow == [row |-> -1, col |-> -1]

NoItem == [kind |-> "none", row |-> -1, col |-> -1, out |-> NoData]

\* iter() has not been called.
IterInit ==
  iter = [live |-> FALSE, row |-> 0, cur |-> NoRow, nrows |-> 0, ncols |-> 0,
          last |-> NoItem, runs |-> 0]

\* FrameDataIter::next, frame_data_iter.rs lines 38-52: the next row, if
\* any, and the iterator's row after the call.
FrameDataIter_next(f, row) ==
  IF row >= f.height
  THEN [some |-> FALSE, row |-> row, item |-> NoRow]
  ELSE [some |-> TRUE, row |-> row + 1, item |-> [row |-> row, col |-> 0]]

FrameRowIter_next_inclusive(f, r) ==
  IF r.col > f.width
  THEN [some |-> FALSE, col |-> r.col, value |-> NoData]
  ELSE [some |-> TRUE, col |-> r.col + 1, value |-> data_get_pixel(f, r.col, r.row)]

\* FrameRowIter::next, frame_data_iter.rs lines 58-67.
FrameRowIter_next(f, r) ==
  IF r.col >= f.width
  THEN [some |-> FALSE, col |-> r.col, value |-> NoData]
  ELSE [some |-> TRUE, col |-> r.col + 1, value |-> data_get_pixel(f, r.col, r.row)]

\* FrameDataValue::iter, frame_data.rs lines 313-318, on the data of the
\* frame (an Invalid frame has none): FrameDataIter::new starts at row 0.
\* nrows and ncols count what the caller was handed.
call_iter ==
  /\ curFrame # Nothing
  /\ format(curFrame.f) # "Invalid"
  /\ iter.runs < MaxIters
  /\ iter' = [live |-> TRUE, row |-> 0, cur |-> NoRow, nrows |-> 0, ncols |-> 0,
              last |-> [NoItem EXCEPT !.kind = "new"], runs |-> iter.runs + 1]

\* The caller asks the FrameDataIter for the next row and, when there is
\* one, goes on with that row.
rows_next ==
  /\ iter.live
  /\ LET n == FrameDataIter_next(curFrame.f, iter.row) IN
       iter' = IF n.some
               THEN [iter EXCEPT !.row = n.row, !.cur = n.item, !.nrows = @ + 1,
                                 !.ncols = 0,
                                 !.last = [NoItem EXCEPT !.kind = "row",
                                                         !.row = n.item.row]]
               ELSE [iter EXCEPT !.cur = NoRow,
                                 !.last = [NoItem EXCEPT !.kind = "end_rows"]]

\* The caller asks the FrameRowIter at hand for the next value; a panic of
\* get_pixel ends the iteration.
row_next ==
  /\ iter.live
  /\ iter.cur # NoRow
  /\ LET n == FrameRowIter_next(curFrame.f, iter.cur) IN
       iter' = IF n.some
               THEN [iter EXCEPT !.cur.col = n.col, !.ncols = @ + 1,
                                 !.live = n.value.kind # "panic",
                                 !.last = [kind |-> "value", row |-> iter.cur.row,
                                           col |-> iter.cur.col, out |-> n.value]]
               ELSE [iter EXCEPT !.last = [NoItem EXCEPT !.kind = "end_row"]]

(* =========================== the registration ========================== *)

\* A Frame of the given shape, as the caller holds it.
FrameOf(fmt, width, height, bytes_per_pixel) ==
  Frame_new(create_frame(width, height, bytes_per_pixel,
                         Buffer(width * height * bytes_per_pixel, 0),
                         FactoryMeta, fmt, 0))

\* The frames a caller passes: the shapes the registration asks for, and
\* frames of another resolution, format or pixel size.
CandidateFrames ==
  {FrameOf("Float", 512, 424, 4), FrameOf("RGBX", 1920, 1080, 4),
   FrameOf("BGRX", 1920, 1080, 4), FrameOf("RGBX", 512, 424, 4),
   FrameOf("BGRX", 512, 424, 4), FrameOf("Float", 1920, 1082, 4),
   FrameOf("Float", 320, 240, 4), FrameOf("Gray", 512, 424, 1),
   FrameOf("Raw", 512, 424, 1), FrameOf("Float", 512, 424, 1)}

\* An argument the operation does not have.
NoArg == [by |-> "none"]

RegInit ==
  regLast = [op |-> "none", depth |-> NoArg, color |-> NoArg,
             undistorted_depth |-> NoArg, color_depth_image |-> NoArg,
             big_depth |-> NoArg, ret |-> "none", native |-> FALSE,
             written |-> FALSE]

ensure_frame_format_only(val, formats, width, height) == format(val) \in formats

\* The macro ensure_frame!, registration.rs lines 5-33.
ensure_frame(val, formats, width, height) ==
  /\ format(val) \in formats
  /\ val.width = width
  /\ val.height = height
  /\ val.bytes_per_pixel = 4
  /\ val.raw_data.len = raw_data_len(val)

\* map_depth_to_color, lines 111-114: the first frame refused, or "ok".
map_depth_to_color_check(dep, col, und, cdi) ==
  IF ~ensure_frame(dep, {"Float"}, 512, 424) THEN "InvalidDepth"
  ELSE IF ~ensure_frame(col, {"RGBX", "BGRX"}, 1920, 1080) THEN "InvalidColor"
  ELSE IF ~ensure_frame(und, {"Float"}, 512, 424) THEN "InvalidUndistortedDepth"
  ELSE IF ~ensure_frame(cdi, {"RGBX", "BGRX"}, 512, 424) THEN "InvalidColorDepthImage"
  ELSE "ok"

\* map_depth_to_full_color, lines 165-169.
map_depth_to_full_color_check(dep, col, und, cdi, big) ==
  IF map_depth_to_color_check(dep, col, und, cdi) # "ok"
  THEN map_depth_to_color_check(dep, col, und, cdi)
  ELSE IF ~ensure_frame(big, {"Float"}, 1920, 1082) THEN "InvalidBigDepth"
  ELSE "ok"

\* undistort_depth, lines 203-204.
undistort_depth_check(dep, und) ==
  IF ~ensure_frame(dep, {"Float"}, 512, 424) THEN "InvalidDepth"
  ELSE IF ~ensure_frame(und, {"Float"}, 512, 424) THEN "InvalidUndistortedDepth"
  ELSE "ok"

\* The tail of the three operations: after the checks the native routine is
\* called; it writes the output frames and may throw.  A behaviour follows
\* one call.
Mapping(op, dep, col, und, cdi, big, check) ==
  /\ regLast.op = "none"
  /\ IF check # "ok"
     THEN regLast' = [op |-> op, depth |-> dep, color |-> col,
                      undistorted_depth |-> und, color_depth_image |-> cdi,
                      big_depth |-> big, ret |-> check, native |-> FALSE,
                      written |-> FALSE]
     ELSE \E r \in NativeUnit, w \in BOOLEAN :
            /\ r = "ok" => w
            /\ regLast' = [op |-> op, depth |-> dep, color |-> col,
                           undistorted_depth |-> und, color_depth_image |-> cdi,
                           big_depth |-> big,
                           ret |-> IF r = "ok" THEN "ok" ELSE "NativeThrow",
                           native |-> TRUE, written |-> w]

map_depth_to_color(dep, col, und, cdi) ==
  Mapping("map_depth_to_color", [by |-> "caller", f |-> dep],
          [by |-> "caller", f |-> col], [by |-> "caller", f |-> und],
          [by |-> "caller", f |-> cdi], NoArg,
          map_depth_to_color_check(dep, col, und, cdi))

map_depth_to_full_color(dep, col, und, cdi, big) ==
  Mapping("map_depth_to_full_color", [by |-> "caller", f |-> dep],
          [by |-> "caller", f |-> col], [by |-> "caller", f |-> und],
          [by |-> "caller", f |-> cdi], [by |-> "caller", f |-> big],
          map_depth_to_full_color_check(dep, col, und, cdi, big))

undistort_depth(dep, und) ==
  Mapping("undistort_depth", [by |-> "caller", f |-> dep], NoArg,
          [by |-> "caller", f |-> und], NoArg, NoArg,
          undistort_depth_check(dep, und))

(* ================== device sessions and their context ================== *)

\* No device has been opened.
SessionInit == devs = [t \in Threads |-> [c \in Ctxs |-> 0]]

OpenDevices == LET n[t \in 0..NumThreads] ==
                 IF t = 0 THEN 0
                 ELSE n[t - 1] + (LET k[c \in 0..MaxCtx] ==
                                    IF c = 0 THEN 0 ELSE k[c - 1] + devs[t][c]
                                  IN k[MaxCtx])
               IN n[NumThreads]

\* open_default_device, open_device_by_id and open_device_by_serial,
\* freenect2.rs lines 121-167: through a handle that is not borrowed, the
\* native context opens a device or throws.  The device returned borrows the
\* handle.
open_device(t, c) ==
  /\ pc[t] = "idle"
  /\ held[t][c] > Borrowed(devs[t][c])
  /\ OpenDevices < MaxDevices
  /\ \E r \in NativeUnit :
       /\ devs' = (IF r = "ok" THEN [devs EXCEPT ![t][c] = @ + 1] ELSE devs)
       /\ result' = [result EXCEPT ![t] =
                       [op |-> "open_device",
                        ret |-> IF r = "ok" THEN "ok" ELSE "native_err",
                        ctx |-> c, built |-> FALSE]]
  /\ UNCHANGED <<weak, strong, native, lock, pc, held, local, nctx, lastEnum,
                 sharedDrop>>

\* A Freenect2Device goes out of scope, closed or not: the native device is
\* released and the borrow of the handle ends.
drop_device(t, c) ==
  /\ pc[t] = "idle"
  /\ devs[t][c] > 0
  /\ devs' = [devs EXCEPT ![t][c] = @ - 1]
  /\ UNCHANGED guardVars

(* ========================== the specifications ========================= *)

\* What each subsystem leaves alone.
notGuard == <<deviceVars, listenerVars, bridgeVars, configVars, frameVars, registrationVars, sessionVars, iterVars>>

notDevice == <<guardVars, listenerVars, bridgeVars, configVars, frameVars, registrationVars, sessionVars, iterVars>>

notListener == <<guardVars, deviceVars, bridgeVars, configVars, frameVars, registrationVars, sessionVars, iterVars>>

notBridge == <<guardVars, deviceVars, listenerVars, configVars, frameVars, registrationVars, sessionVars, iterVars>>

notConfig == <<guardVars, deviceVars, listenerVars, bridgeVars, frameVars, registrationVars, sessionVars, iterVars>>

notFrame == <<guardVars, deviceVars, listenerVars, bridgeVars, configVars, registrationVars, sessionVars, iterVars>>

notRegistration == <<guardVars, deviceVars, listenerVars, bridgeVars, configVars, frameVars, sessionVars, iterVars>>

notSession == <<guardVars, deviceVars, listenerVars, bridgeVars, configVars, frameVars, registrationVars, iterVars>>

notIter == <<guardVars, deviceVars, listenerVars, bridgeVars, configVars, frameVars, registrationVars, sessionVars>>

Init == GuardInit /\ DeviceInit /\ ListenerInit /\ BridgeInit /\ ConfigInit /\ FrameInit /\ RegInit /\ SessionInit /\ IterInit /\ counting = TRUE /\ callers = Consumers

\* The same with frames and sets that carry no identity.
InitFair == GuardInit /\ DeviceInit /\ ListenerInit /\ BridgeInit /\ ConfigInit /\ FrameInit /\ RegInit /\ SessionInit /\ IterInit /\ counting = FALSE /\ callers = Consumers

\* Every consumer calls the listener.
InitShared == GuardInit /\ DeviceInit /\ ListenerInit /\ BridgeInit /\ ConfigInit /\ FrameInit /\ RegInit /\ SessionInit /\ IterInit /\ counting = TRUE /\ callers = Callers

\* One step of one thread in the context guard.
GuardNext ==
  \/ \E t \in Threads : new_lock(t) /\ UNCHANGED notGuard
  \/ \E t \in Threads : new_upgrade(t) /\ UNCHANGED notGuard
  \/ \E t \in Threads : new_create(t) /\ UNCHANGED notGuard
  \/ \E t \in Threads : new_store(t) /\ UNCHANGED notGuard
  \/ \E t \in Threads, c \in Ctxs : drop_handle(t, c) /\ UNCHANGED notGuard
  \/ \E t \in Threads : drop_finish(t) /\ UNCHANGED notGuard
  \/ \E t \in Threads, c \in Ctxs : enumerate_devices(t, c) /\ UNCHANGED notGuard
  \/ \E t \in Threads : has_instance_lock(t) /\ UNCHANGED notGuard
  \/ \E t \in Threads : has_instance_upgrade(t) /\ UNCHANGED notGuard
  \/ \E t \in Threads : has_instance_drop(t) /\ UNCHANGED notGuard
  \/ \E t \in Threads : has_instance_finish(t) /\ UNCHANGED notGuard

\* The handles of the context guard, made and dropped by concurrent threads,
\* together with the devices opened through them.
SessionNext ==
  \/ \E t \in Threads : new_lock(t) /\ UNCHANGED notGuard
  \/ \E t \in Threads : new_upgrade(t) /\ UNCHANGED notGuard
  \/ \E t \in Threads : new_create(t) /\ UNCHANGED notGuard
  \/ \E t \in Threads : new_store(t) /\ UNCHANGED notGuard
  \/ \E t \in Threads, c \in Ctxs : drop_handle(t, c) /\ UNCHANGED notGuard
  \/ \E t \in Threads : drop_finish(t) /\ UNCHANGED notGuard
  \/ \E t \in Threads, c \in Ctxs :
       open_device(t, c) /\ UNCHANGED <<deviceVars, listenerVars, bridgeVars,
                                         configVars, frameVars, registrationVars,
                                         iterVars>>
  \/ \E t \in Threads, c \in Ctxs : drop_device(t, c) /\ UNCHANGED notSession

SpecSession == Init /\ [][SessionNext]_vars

\* One call of an operation of the device session.
DeviceNext ==
  \/ get_serial_number /\ UNCHANGED notDevice
  \/ get_firmware_version /\ UNCHANGED notDevice
  \/ start /\ UNCHANGED notDevice
  \/ \E color \in BOOLEAN, depth \in BOOLEAN :
       start_streams(color, depth) /\ UNCHANGED notDevice
  \/ stop /\ UNCHANGED notDevice
  \/ close /\ UNCHANGED notDevice
  \/ set_color_frame_listener /\ UNCHANGED notDevice
  \/ set_ir_and_depth_frame_listener /\ UNCHANGED notDevice
  \/ set_config /\ UNCHANGED notDevice
  \/ get_registration /\ UNCHANGED notDevice
  \/ \E s \in LedInputs : set_led_settings(s) /\ UNCHANGED notDevice

\* One step of the aggregator: a construction, a step of a callback on a
\* stream thread, a step of a consumer, or the clock.
ListenerNext ==
  \/ \E T \in ElemTypes, frame_types \in SUBSET FrameTypeSet :
       multi_new(T, frame_types) /\ UNCHANGED notListener
  \/ \E t \in StreamThreads, ty \in FrameTypeSet : cb_lock(t, ty) /\ UNCHANGED notListener
  \/ \E t \in StreamThreads : cb_insert(t) /\ UNCHANGED notListener
  \/ \E t \in StreamThreads : cb_check(t) /\ UNCHANGED notListener
  \/ \E c \in Callers : get_frames(c) /\ UNCHANGED notListener
  \/ \E c \in Callers, d \in 0..MaxTimeout :
       get_frames_with_timeout(c, d) /\ UNCHANGED notListener
  \/ \E c \in Callers : rx_lock(c) /\ UNCHANGED notListener
  \/ \E c \in Callers : recv(c) /\ UNCHANGED notListener
  \/ tick /\ UNCHANGED notListener
  \/ \E t \in StreamThreads : cb_panic(t) /\ UNCHANGED notListener
  \/ \E t \in StreamThreads, ty \in FrameTypeSet :
       cb_lock_poisoned(t, ty) /\ UNCHANGED notListener

\* The same steps without a failing conversion: every invocation of the
\* callback runs to its end.
DeliveryNext ==
  \/ \E T \in ElemTypes, frame_types \in SUBSET FrameTypeSet :
       multi_new(T, frame_types) /\ UNCHANGED notListener
  \/ \E t \in StreamThreads, ty \in FrameTypeSet : cb_lock(t, ty) /\ UNCHANGED notListener
  \/ \E t \in StreamThreads : cb_insert(t) /\ UNCHANGED notListener
  \/ \E t \in StreamThreads : cb_check(t) /\ UNCHANGED notListener
  \/ \E c \in Callers : get_frames(c) /\ UNCHANGED notListener
  \/ \E c \in Callers, d \in 0..MaxTimeout :
       get_frames_with_timeout(c, d) /\ UNCHANGED notListener
  \/ \E c \in Callers : rx_lock(c) /\ UNCHANGED notListener
  \/ \E c \in Callers : recv(c) /\ UNCHANGED notListener
  \/ tick /\ UNCHANGED notListener

\* Threads creating, using and dropping Freenect2 handles.
SpecGuard == Init /\ [][GuardNext]_vars

\* One device session, any sequence of its operations.
SpecDevice == Init /\ [][DeviceNext]_vars

\* One FrameListener and the invocations of its callback.
BridgeNext ==
  \/ FrameListener_new /\ UNCHANGED notBridge
  \/ new_no_panic /\ UNCHANGED notBridge
  \/ \E ty \in FrameTypeSet, out \in ClosureOutcomes :
       on_new_frame(ty, out) /\ UNCHANGED notBridge

SpecBridge == Init /\ [][BridgeNext]_vars

\* The setters of one Config.
ConfigNext ==
  \/ \E min_depth \in DepthInputs : set_min_depth(min_depth) /\ UNCHANGED notConfig
  \/ \E max_depth \in DepthInputs : set_max_depth(max_depth) /\ UNCHANGED notConfig
  \/ \E enable \in BOOLEAN : set_enable_bilateral_filter(enable) /\ UNCHANGED notConfig
  \/ \E enable \in BOOLEAN : set_enable_edge_aware_filter(enable) /\ UNCHANGED notConfig

SpecConfig == Init /\ [][ConfigNext]_vars

\* Frames are delivered or made, copied, and their pixels read; the
\* coordinates go one past the largest width and height.
FrameNext ==
  \/ \E width \in 0..MaxDim, height \in 0..MaxDim, fmt \in FfiFormats,
        bytes_per_pixel \in {1, 4}, seed \in Seeds, meta \in {FactoryMeta, SampleMeta} :
       deliver(width, height, fmt, bytes_per_pixel, seed, meta) /\ UNCHANGED notFrame
  \/ make_depth /\ UNCHANGED notFrame
  \/ make_color_for_depth /\ UNCHANGED notFrame
  \/ make_depth_full_color /\ UNCHANGED notFrame
  \/ call_to_owned /\ UNCHANGED notFrame
  \/ call_to_frame /\ UNCHANGED notFrame
  \/ \E x \in 0..(MaxDim + 1), y \in 0..(MaxDim + 1) :
       call_get_pixel(x, y) /\ UNCHANGED notFrame
  \/ \E x \in 0..(MaxDim + 1), y \in 0..(MaxDim + 1) :
       call_data_get_pixel(x, y) /\ UNCHANGED notFrame

SpecFrame == Init /\ [][FrameNext]_vars

\* A frame is delivered and its data is iterated over, any number of rows
\* and values at a time.
IterNext ==
  \/ \E width \in 0..MaxDim, height \in 0..MaxDim, fmt \in FfiFormats,
        bytes_per_pixel \in {1, 4}, seed \in Seeds, meta \in {FactoryMeta, SampleMeta} :
       deliver(width, height, fmt, bytes_per_pixel, seed, meta) /\ UNCHANGED notFrame
  \/ call_iter /\ UNCHANGED notIter
  \/ rows_next /\ UNCHANGED notIter
  \/ row_next /\ UNCHANGED notIter

SpecIter == Init /\ [][IterNext]_vars

\* One call on a Registration; the operations are enabled while no call has
\* been made (Mapping's guard, tested here before the frames are chosen).
RegistrationNext ==
  \/ /\ regLast.op = "none"
     /\ \E dep \in CandidateFrames, col \in CandidateFrames,
           und \in CandidateFrames, cdi \in CandidateFrames :
          map_depth_to_color(dep, col, und, cdi) /\ UNCHANGED notRegistration
  \/ /\ regLast.op = "none"
     /\ \E dep \in CandidateFrames, col \in CandidateFrames,
           und \in CandidateFrames, cdi \in CandidateFrames,
           big \in CandidateFrames :
          map_depth_to_full_color(dep, col, und, cdi, big) /\ UNCHANGED notRegistration
  \/ /\ regLast.op = "none"
     /\ \E dep \in CandidateFrames, und \in CandidateFrames :
          undistort_depth(dep, und) /\ UNCHANGED notRegistration

SpecRegistration == Init /\ [][RegistrationNext]_vars

\* One MultiFrameListener, two stream threads and the consumers.
SpecListener == Init /\ [][ListenerNext]_vars

\* The scheduling the liveness claims assume: every frame type keeps being
\* delivered (strong fairness of the callback's entry, which competes for
\* the FrameMap mutex), a callback that holds the mutex runs to its end, and
\* a consumer inside recv that can receive does so.
ListenerFairness ==
  /\ \A t \in StreamThreads, ty \in FrameTypeSet : SF_vars(cb_lock(t, ty) /\ UNCHANGED notListener)
  /\ \A t \in StreamThreads : WF_vars(cb_insert(t) /\ UNCHANGED notListener)
  /\ \A t \in StreamThreads : WF_vars(cb_check(t) /\ UNCHANGED notListener)
  /\ \A c \in Consumers : WF_vars(recv(c) /\ UNCHANGED notListener)

\* The liveness claims are about invocations that run to their end.
SpecListenerFair == InitFair /\ [][DeliveryNext]_vars /\ ListenerFairness

\* The consumers' side with the receiver's mutex contended: several threads
\* call get_frames and get_frames_with_timeout on one listener.
SpecReceiver == InitShared /\ [][ListenerNext]_vars

(* ====================== claims: the context guard ====================== *)

\* C1: in every reachable state at most one native driver context exists,
\* counting a context whose last handle is gone but whose destructor has not
\* finished.  (The code does not keep this: see the trace.)
C1_AtMostOneNativeContext == Cardinality(LiveContexts) <= 1

\* Some thread returns from new() in this step.
NewReturns(t) == pc[t] \in {"upgrade", "create", "store"} /\ pc'[t] = "idle"

\* C2: a new() that reaches its upgrade while some handle is live returns a
\* handle to the context of that handle and constructs nothing; a native
\* context is constructed only in a state where no handle is live; hence all
\* live handles always refer to one context.
C2_NewSharesLiveContext ==
  [][ /\ \A t \in Threads :
           (pc[t] = "upgrade" /\ pc'[t] # "upgrade" /\ TotalHandles > 0) =>
             /\ pc'[t] = "idle"
             /\ result'[t].op = "new" /\ result'[t].ret = "ok"
             /\ ~result'[t].built
             /\ \A u \in Threads, c \in Ctxs :
                  held[u][c] > 0 => result'[t].ctx = c
             /\ held'[t][result'[t].ctx] = held[t][result'[t].ctx] + 1
             /\ nctx' = nctx /\ native' = native
      /\ (nctx' # nctx => TotalHandles = 0)
      /\ \A t \in Threads, u \in Threads, c \in Ctxs, d \in Ctxs :
           (held'[t][c] > 0 /\ held'[u][d] > 0) => c = d
    ]_vars

\* C2's case: two threads hold handles to one context whose strong count is
\* 2, the second obtained by upgrading the static's weak reference.
C2_Witness ==
  \E t \in Threads, u \in Threads, c \in Ctxs :
    /\ t # u
    /\ held[t][c] = 1 /\ held[u][c] = 1
    /\ strong[c] = 2 /\ nctx = 1
    /\ result[t] = [op |-> "new", ret |-> "ok", ctx |-> c, built |-> TRUE]
    /\ result[u] = [op |-> "new", ret |-> "ok", ctx |-> c, built |-> FALSE]

\* C3: while a Freenect2 handle to a context exists, that native context is
\* live (its destructor has not started), and every enumerate_devices
\* through a handle runs on a live context.
C3_ContextOutlivesHandles ==
  /\ \A t \in Threads, c \in Ctxs : held[t][c] > 0 => native[c] = "live"
  /\ lastEnum \in {"none", "live"}

\* C3's case: one of several handles was dropped and enumerate_devices then
\* ran through a remaining handle.
C3_Witness ==
  /\ sharedDrop
  /\ lastEnum = "live"
  /\ \E t \in Threads : result[t].op = "enumerate_devices" /\ result[t].ret = "ok"

\* C4: in a state where every handle has been dropped, has_instance()
\* returns false, and a new() that returns there has constructed a fresh
\* native context (live, constructed by this call, now the one the static
\* points at) and returns the only handle to it; it fails only with the
\* error of the native constructor, and then nothing was constructed.
C4_FreshContextAfterLastDrop ==
  [][ \A t \in Threads :
        /\ (pc[t] = "hi_upgrade" /\ pc'[t] # "hi_upgrade" /\ TotalHandles = 0) =>
             (result'[t].op = "has_instance" /\ result'[t].ret = "false")
        /\ (NewReturns(t) /\ TotalHandles = 0) =>
             /\ result'[t].op = "new"
             /\ IF result'[t].ret = "ok"
                THEN /\ result'[t].built
                     /\ native'[result'[t].ctx] = "live"
                     /\ weak' = result'[t].ctx
                     /\ strong'[result'[t].ctx] = 1
                     /\ held'[t][result'[t].ctx] = 1
                ELSE /\ result'[t].ret = "native_err"
                     /\ pc[t] = "create"
                     /\ nctx' = nctx /\ native' = native /\ held' = held
    ]_vars

\* C4's case: the first context was destroyed, has_instance() returned
\* false, and a later new() constructed the second context.
C4_Witness ==
  \E t \in Threads, u \in Threads :
    /\ native[1] = "destroyed"
    /\ result[t].op = "has_instance" /\ result[t].ret = "false"
    /\ result[u] = [op |-> "new", ret |-> "ok", ctx |-> 2, built |-> TRUE]
    /\ weak = 2 /\ native[2] = "live" /\ held[u][2] = 1

(* ====================== claims: the device session ===================== *)

FlagsUnchanged == started = last.preStarted /\ closed = last.preClosed

\* C5: start() and start_streams() return Ok only from a session that is
\* neither started nor closed; on a started or closed session they return
\* an error, make no native call and leave both flags as they were.
C5_StartOnlyWhenIdle ==
  last.op \in {"start", "start_streams"} =>
    /\ (last.ret = "ok" => ~last.preStarted /\ ~last.preClosed)
    /\ (last.preStarted \/ last.preClosed) =>
         (last.ret # "ok" /\ last.native = "none" /\ FlagsUnchanged)

\* C5's case: start() on a started session was refused.
C5_Witness ==
  /\ last.op = "start" /\ last.preStarted /\ ~last.preClosed
  /\ last.ret = "NotStopped" /\ started

\* C6: start_streams(false, false) fails with an argument error in every
\* state of the session, without a native call and without changing a flag.
C6_NoStreamIsArgumentError ==
  (last.op = "start_streams" /\ ~last.color /\ ~last.depth) =>
    /\ ErrClass(last.ret) = "argument"
    /\ last.native = "none"
    /\ FlagsUnchanged

\* C6's case: start_streams(false, false) on a closed session that had
\* been started: the argument error wins over the state errors.
C6_Witness ==
  /\ last.op = "start_streams" /\ ~last.color /\ ~last.depth
  /\ last.preClosed /\ last.preStarted
  /\ last.ret = "NoStream"

\* C7: stop() returns Ok only on a started, not closed session; before any
\* successful start it fails with a state error, makes no native call and
\* changes no flag.
C7_StopOnlyWhenStarted ==
  last.op = "stop" =>
    /\ (last.ret = "ok" => last.preStarted /\ ~last.preClosed)
    /\ ~last.preEver =>
         (ErrClass(last.ret) = "state" /\ last.native = "none" /\ FlagsUnchanged)

\* C7's case: stop() on a fresh session was refused.
C7_Witness ==
  /\ last.op = "stop" /\ ~last.preEver /\ ~last.preClosed
  /\ last.ret = "NotStarted" /\ ~started

ClosedGuardedOps ==
  {"get_serial_number", "get_firmware_version", "start", "start_streams", "stop",
   "close", "set_config", "get_registration", "set_led_settings"}

\* C8: on a closed session each of get_serial_number, get_firmware_version,
\* start, start_streams, stop, close, set_config, get_registration and
\* set_led_settings returns an error and makes no native call.
C8_ClosedIsTerminal ==
  (last.preClosed /\ last.op \in ClosedGuardedOps) =>
    (last.ret # "ok" /\ last.native = "none" /\ closed)

\* C8's case: get_serial_number on a closed session.
C8_Witness ==
  /\ last.op = "get_serial_number" /\ last.preClosed
  /\ last.ret = "Closed" /\ last.native = "none"

\* C9: on a closed session set_color_frame_listener and
\* set_ir_and_depth_frame_listener both return an error and register
\* nothing with the native device.  (The code does not keep this for the
\* IR and depth listener: see the trace.)
C9_ListenersRefusedWhenClosed ==
  (last.preClosed /\
   last.op \in {"set_color_frame_listener", "set_ir_and_depth_frame_listener"}) =>
    (last.ret # "ok" /\ last.native = "none")

\* C10: set_config on a started session returns an error.  (The code does
\* not keep this: see the trace.)
C10_SetConfigRefusedWhenStarted ==
  (last.op = "set_config" /\ last.preStarted) => last.ret # "ok"

\* C11: get_registration makes its native call only on a started, not
\* closed session; before the first successful start, after a successful
\* stop and after close it returns an error and no Registration is made.
C11_RegistrationOnlyWhenStarted ==
  last.op = "get_registration" =>
    /\ (last.native # "none" => last.preStarted /\ ~last.preClosed)
    /\ (~last.preStarted \/ last.preClosed) =>
         (last.ret # "ok" /\ last.native = "none" /\ FlagsUnchanged)

\* C11's case: get_registration after a successful start and a successful
\* stop was refused.
C11_Witness ==
  /\ last.op = "get_registration"
  /\ last.preEver /\ ~last.preStarted /\ ~last.preClosed
  /\ last.ret = "NotStarted" /\ last.native = "none"

\* What C12 requires of the session and of the settings.
LedCallExpected ==
  /\ last.preStarted /\ ~last.preClosed
  /\ last.led.id \in {0, 1}
  /\ last.led.mode \in {"Constant", "Blink"}
  /\ last.led.start_level <= 1000
  /\ last.led.stop_level <= 1000
  /\ (last.led.mode = "Blink" => last.led.interval_ms > 0)

Complete(m) == \A ty \in types : m[ty] # NoFrame

\* The sets handed over that are still in sight: queued or last received.
SetsInSight ==
  {chan[i] : i \in 1..Len(chan)}
    \cup {consumer[c].got : c \in {d \in Consumers : consumer[d].got.kind = "set"}}

\* C13: MultiFrameListener::new with an empty set of frame types fails and
\* creates no listener; with a non-empty set the listener, once created,
\* requires exactly these types, and the required types never change.
C13_NewFixesTypes ==
  [][/\ (newCall'.ret # "none" /\ newCall'.arg = {}) =>
          (newCall'.ret = "NoTypes" /\ ~created')
     /\ created' => (types' # {} /\ types' = newCall'.arg /\ newCall'.ret = "ok")
     /\ created => (created' /\ types' = types)]_vars

C13_Witness == newCall.arg = {} /\ newCall.ret = "NoTypes" /\ ~created

\* C14: every set queued for or returned to the consumer holds a frame of
\* every required type, so a listener for Color and Depth that was given
\* Color frames only has handed over no set.
C14_SetsAreComplete ==
  /\ \A set \in SetsInSight : Complete(set.map)
  /\ \A c \in Consumers : consumer[c].got.kind = "set" => Complete(consumer[c].got.map)
  /\ nsets = 0 => SetsInSight = {}

C14_Witness ==
  /\ types = {"Color", "Depth"}
  /\ \E c \in Consumers :
       /\ consumer[c].got.kind = "set"
       /\ consumer[c].got.map["Color"] # NoFrame
       /\ consumer[c].got.map["Depth"] # NoFrame

\* C15: a callback that finds the pending map complete hands over exactly
\* one set, the map as it was, and leaves every slot of the pending map
\* empty in the same step; a callback that finds it incomplete hands over
\* nothing; no frame is in two sets, nor in a set and in the pending map.
C15_CompletionResetsMap ==
  [][/\ \A t \in StreamThreads :
          (cb[t].pc = "check" /\ cb'[t].pc = "idle") =>
            IF Complete(frames)
            THEN /\ Len(chan') = Len(chan) + 1
                 /\ chan'[Len(chan')].map = frames
                 /\ nsets' = nsets + 1
                 /\ \A ty \in FrameTypeSet : frames'[ty] = NoFrame
            ELSE chan' = chan /\ nsets' = nsets /\ frames' = frames
     /\ nsets' # nsets => \E t \in StreamThreads : cb[t].pc = "check"
     /\ \A s1 \in SetsInSight', s2 \in SetsInSight' :
          s1.seq # s2.seq => FramesOf(s1.map) \cap FramesOf(s2.map) = {}
     /\ \A s1 \in SetsInSight' : FramesOf(s1.map) \cap FramesOf(frames') = {}]_vars

C15_Witness ==
  /\ chan # <<>>
  /\ frames = FrameMapDefault
  /\ \E ty \in FrameTypeSet \ types : chan[Len(chan)].map[ty] # NoFrame
  /\ \A t \in StreamThreads : cb[t].pc = "idle"

\* C16 as stated: at most one completed set waits in the handoff, and it is
\* the most recently completed one.
C16_OnlyLatestSetPending ==
  chan # <<>> => (Len(chan) = 1 /\ chan[1].seq = nsets)

\* C16, amended: every completed set is queued in the order of completion
\* and none is dropped, so the next get_frames returns the oldest set that
\* has not been received yet.
C16_SetsQueuedInOrder ==
  /\ Len(chan) = nsets - nrecv
  /\ \A i \in 1..Len(chan) : chan[i].seq = nrecv + i
  /\ \A c \in Consumers :
       (consumer[c].got.kind = "set" /\ consumer[c].pc = "idle") =>
         consumer[c].got.seq <= nrecv

C16_Witness ==
  /\ Len(chan) = 2
  /\ chan[1].seq = 1
  /\ chan[2].seq = 2
  /\ \A c \in Consumers : consumer[c].pc = "idle" /\ consumer[c].got.kind = "none"

\* C17: get_frames_with_timeout returns the timeout error only when the
\* time given has passed and no set is queued, and whenever a set is queued
\* it returns that set, which is complete.
C17_TimeoutOnlyWithoutSet ==
  [][\A c \in Consumers :
       (consumer[c].pc = "recv" /\ consumer'[c].pc = "idle"
        /\ consumer[c].mode = "timeout") =>
         IF chan = <<>>
         THEN consumer[c].timer = 0 /\ consumer'[c].got.kind = "timeout"
         ELSE /\ consumer'[c].got = Head(chan)
              /\ consumer'[c].got.kind = "set"
              /\ Complete(consumer'[c].got.map)]_vars

C17_Witness ==
  /\ nframes = 0
  /\ \E c \in Consumers :
       /\ consumer[c].pc = "idle"
       /\ consumer[c].mode = "timeout"
       /\ consumer[c].got.kind = "timeout"

\* C18: a set returned to the consumer holds no frame of a type the
\* listener was not created with.
C18_OnlyRequiredTypes ==
  \A c \in Consumers :
    consumer[c].got.kind = "set" =>
      \A ty \in FrameTypeSet \ types : consumer[c].got.map[ty] = NoFrame

\* C19: with fair delivery of every frame type a consumer blocked in the
\* recv of get_frames eventually returns with a complete set, and get_frames
\* returns nothing but a set.
C19_BlockedConsumerReturns ==
  /\ \A c \in Consumers :
       (consumer[c].pc = "recv" /\ consumer[c].mode = "block")
         ~> (consumer[c].pc = "idle" /\ consumer[c].mode = "block"
             /\ consumer[c].got.kind = "set" /\ Complete(consumer[c].got.map))
  /\ [](\A c \in Consumers :
          (consumer[c].pc = "idle" /\ consumer[c].mode = "block") =>
            consumer[c].got.kind = "set")

C19_Witness ==
  /\ types = {"Color", "Depth"}
  /\ \E c \in Consumers :
       /\ consumer[c].pc = "idle"
       /\ consumer[c].mode = "block"
       /\ consumer[c].got.kind = "set"
       /\ consumer[c].got.map["Color"] # NoFrame
       /\ consumer[c].got.map["Depth"] # NoFrame
       /\ consumer[c].got.map["Ir"] = NoFrame

(* --------------------------- the bridge's claim ------------------------ *)

\* C20: in every invocation in which the user closure returned, the string
\* handed back reports an error exactly when the closure returned Err, and
\* then it carries the error's message.
C20_ErrorReportedIffClosureErr ==
  \A i \in 1..Len(calls) :
    calls[i].out.kind \in {"Ok", "Err"} =>
      /\ calls[i].returned
      /\ ReportsError(calls[i].str) <=> (calls[i].out.kind = "Err")
      /\ calls[i].out.kind = "Err" =>
           (calls[i].out.msg = "" \/ calls[i].str[1] = calls[i].out.msg)

\* C21: with a listener built by FrameListener::new a panic of the user
\* closure never ends the process: the invocation returns, the panic is
\* logged and the string handed back reports an error; the listener goes on
\* taking invocations.
C21_PanicContained ==
  blistener = "new" =>
    /\ ~aborted
    /\ \A i \in 1..Len(calls) :
         calls[i].out.kind = "Panic" =>
           /\ calls[i].returned
           /\ calls[i].logged
           /\ ReportsError(calls[i].str)

C21_Witness ==
  /\ blistener = "new"
  /\ Len(calls) = 2
  /\ calls[1].out.kind = "Panic"
  /\ calls[1].returned
  /\ calls[2].out.kind = "Ok"
  /\ calls[2].returned
  /\ ~ReportsError(calls[2].str)

\* C29: a start, start_streams, stop or close whose native call threw or
\* returned false returned an error and left started and closed as they
\* were; one that returned Ok made the native call and set its flag.
C29_FailedNativeCallKeepsFlags ==
  last.op \in {"start", "start_streams", "stop", "close"} =>
    /\ ErrClass(last.ret) = "native" => (last.native = last.op /\ FlagsUnchanged)
    /\ last.ret = "ok" =>
         /\ last.native = last.op
         /\ last.op \in {"start", "start_streams"} => (started /\ closed = last.preClosed)
         /\ last.op = "stop" => (~started /\ closed = last.preClosed)
         /\ last.op = "close" => (closed /\ started = last.preStarted)

\* C29's case: the native stop of a started session returned false.
C29_Witness ==
  /\ last.op = "stop" /\ last.ret = "NativeFalse" /\ last.native = "stop"
  /\ last.preStarted /\ started /\ ~closed

\* C30: a successful stop leaves the session neither started nor closed,
\* and on a session that was started before and is now neither started nor
\* closed start and start_streams are not refused for the session's state:
\* they reach the native call, whatever the number of earlier cycles.
C30_RestartAfterStop ==
  /\ (last.op = "stop" /\ last.ret = "ok") =>
       (~started /\ ~closed /\ start_check = "ok"
        /\ \A color, depth \in BOOLEAN :
             (color \/ depth) => start_streams_check(color, depth) = "ok")
  /\ (last.op \in {"start", "start_streams"} /\ last.preEver
      /\ ~last.preStarted /\ ~last.preClosed
      /\ (last.op = "start_streams" => (last.color \/ last.depth))) =>
       (last.native = last.op /\ ErrClass(last.ret) # "state")

\* C30's case: a start succeeded on a session that had been started and
\* stopped before.
C30_Witness ==
  /\ last.op = "start" /\ last.ret = "ok"
  /\ last.preEver /\ ~last.preStarted /\ ~last.preClosed
  /\ started

(* --------------------------- the config's claims ----------------------- *)

ConfigUnchanged == cfgMin = cfgLast.preMin /\ cfgMax = cfgLast.preMax

\* C23 as stated: set_min_depth(v) fails and changes nothing when v <= 0 or
\* v >= the current max depth, and succeeds with get_min_depth() = v in
\* every other case.
C23_MinDepthFailsOnlyOutOfRange ==
  cfgLast.op = "set_min_depth" =>
    IF Le(cfgLast.arg, Zero) \/ Ge(cfgLast.arg, cfgLast.preMax)
    THEN cfgLast.ret # "ok" /\ ConfigUnchanged
    ELSE cfgLast.ret = "ok" /\ get_min_depth = cfgLast.arg

\* C23, amended: set_min_depth(v) succeeds, with get_min_depth() = v and the
\* max depth untouched, exactly when v > 0 and v < the current max depth; in
\* every other case, a NaN included, it fails and changes nothing.
C23_MinDepthSucceedsOnlyInRange ==
  cfgLast.op = "set_min_depth" =>
    IF Gt(cfgLast.arg, Zero) /\ Lt(cfgLast.arg, cfgLast.preMax)
    THEN cfgLast.ret = "ok" /\ get_min_depth = cfgLast.arg
         /\ get_max_depth = cfgLast.preMax
    ELSE cfgLast.ret # "ok" /\ ConfigUnchanged

\* C23's case: a NaN was refused.
C23_Witness ==
  /\ cfgLast.op = "set_min_depth" /\ cfgLast.arg.nan
  /\ cfgLast.ret # "ok" /\ ConfigUnchanged

\* C24 as stated: set_max_depth(v) fails and changes nothing when v <= 0 or
\* v <= the current min depth, and succeeds with get_max_depth() = v in
\* every other case.
C24_MaxDepthFailsOnlyOutOfRange ==
  cfgLast.op = "set_max_depth" =>
    IF Le(cfgLast.arg, Zero) \/ Le(cfgLast.arg, cfgLast.preMin)
    THEN cfgLast.ret # "ok" /\ ConfigUnchanged
    ELSE cfgLast.ret = "ok" /\ get_max_depth = cfgLast.arg

\* C24, amended: set_max_depth(v) succeeds, with get_max_depth() = v and the
\* min depth untouched, exactly when v > the current min depth, which is
\* itself always > 0; in every other case, a NaN included, it fails and
\* changes nothing.
C24_MaxDepthSucceedsOnlyInRange ==
  /\ Gt(cfgMin, Zero)
  /\ cfgLast.op = "set_max_depth" =>
       IF Gt(cfgLast.arg, cfgLast.preMin)
       THEN cfgLast.ret = "ok" /\ get_max_depth = cfgLast.arg
            /\ get_min_depth = cfgLast.preMin
       ELSE cfgLast.ret # "ok" /\ ConfigUnchanged

\* C24's case: a NaN was refused.
C24_Witness ==
  /\ cfgLast.op = "set_max_depth" /\ cfgLast.arg.nan
  /\ cfgLast.ret # "ok" /\ ConfigUnchanged

(* --------------------------- the frames' claims ------------------------ *)

\* Two buffers hold the same bytes.
SameBytes(a, b) == a.len = b.len /\ (a.len = 0 \/ a.seed = b.seed)

\* C26: the Frame made by to_frame of the OwnedFrame made by to_owned of a
\* frame has that frame's width, height, bytes per pixel, format, timestamp,
\* sequence, exposure, gain, gamma and status, and the same bytes.
C26_RoundTrip ==
  (copied # Nothing /\ owned # Nothing /\ curFrame # Nothing) =>
    /\ copied.f.width = curFrame.f.width
    /\ copied.f.height = curFrame.f.height
    /\ copied.f.bytes_per_pixel = curFrame.f.bytes_per_pixel
    /\ format(copied.f) = format(curFrame.f)
    /\ copied.f.inner.meta.timestamp = curFrame.f.inner.meta.timestamp
    /\ copied.f.inner.meta.sequence = curFrame.f.inner.meta.sequence
    /\ copied.f.inner.meta.exposure = curFrame.f.inner.meta.exposure
    /\ copied.f.inner.meta.gain = curFrame.f.inner.meta.gain
    /\ copied.f.inner.meta.gamma = curFrame.f.inner.meta.gamma
    /\ copied.f.inner.meta.status = curFrame.f.inner.meta.status
    /\ SameBytes(copied.f.raw_data, curFrame.f.raw_data)

\* C26's case: the round trip of a delivered frame of a format the binding
\* does not know, with data and with fields that all differ.
C26_Witness ==
  /\ copied # Nothing
  /\ curFrame.by = "callback"
  /\ curFrame.f.inner.format = "Other"
  /\ curFrame.f.inner.meta = SampleMeta
  /\ curFrame.f.raw_data.len > 0

\* C27: get_pixel of a frame and get_pixel of its data both panic for
\* every x >= width and for every y >= height; neither returns a value.
C27_PixelAccessBoundsChecked ==
  (pixel.op \in {"get_pixel", "data_get_pixel"}
   /\ (pixel.x >= curFrame.f.width \/ pixel.y >= curFrame.f.height)) =>
    (pixel.out.kind # "value"
     /\ (pixel.op = "get_pixel" => pixel.out.kind = "panic"))

Matches(arg, formats, width, height) ==
  /\ format(arg.f) \in formats
  /\ arg.f.width = width /\ arg.f.height = height
  /\ arg.f.bytes_per_pixel = 4
  /\ arg.f.raw_data.len = width * height * 4

\* Every frame of the last call matches what the operation requires.
AllFramesMatch ==
  /\ Matches(regLast.depth, {"Float"}, 512, 424)
  /\ Matches(regLast.undistorted_depth, {"Float"}, 512, 424)
  /\ regLast.op # "undistort_depth" =>
       /\ Matches(regLast.color, {"RGBX", "BGRX"}, 1920, 1080)
       /\ Matches(regLast.color_depth_image, {"RGBX", "BGRX"}, 512, 424)
  /\ regLast.op = "map_depth_to_full_color" =>
       Matches(regLast.big_depth, {"Float"}, 1920, 1082)

\* C25: map_depth_to_color, map_depth_to_full_color and undistort_depth
\* call the native routine exactly when every frame matches; otherwise they
\* return an error, call nothing and leave the output frames unwritten.
C25_RegistrationChecksFrames ==
  regLast.op # "none" =>
    /\ regLast.native <=> AllFramesMatch
    /\ ~AllFramesMatch =>
         (regLast.ret \notin {"ok", "none"} /\ ~regLast.native /\ ~regLast.written)

\* C25's case: map_depth_to_color with a 320x240 depth frame, all other
\* frames as required.
C25_Witness ==
  /\ regLast.op = "map_depth_to_color"
  /\ regLast.depth.f.width = 320 /\ regLast.depth.f.height = 240
  /\ Matches(regLast.color, {"RGBX", "BGRX"}, 1920, 1080)
  /\ Matches(regLast.undistorted_depth, {"Float"}, 512, 424)
  /\ Matches(regLast.color_depth_image, {"RGBX", "BGRX"}, 512, 424)
  /\ regLast.ret = "InvalidDepth" /\ ~regLast.native

(* ---------------------- the frames a listener keeps -------------------- *)

\* The frames of the callback invocations that have not returned yet.
InInvocation == {cb[t].frame : t \in {u \in StreamThreads : cb[u].pc # "idle"}}

\* The frames the consumer can reach: pending, queued or delivered.
Retained ==
  FramesOf(frames)
    \cup UNION {FramesOf(chan[i].map) : i \in 1..Len(chan)}
    \cup UNION {FramesOf(consumer[c].got.map) : c \in Consumers}

\* C22 as stated: a native Frame lives only during the invocation it was
\* handed to; none is retained in the pending map, the queue or a delivered
\* set after the invocation has returned.
C22_NoFrameOutlivesInvocation == views \subseteq InInvocation

\* C22: with T = OwnedFrame the native Frame is released inside its
\* invocation, before the copy is stored, and nothing the consumer can reach
\* is a native Frame; with T = Frame the frames retained are the native
\* Frames themselves, alive until they are overwritten or dropped.
C22_FramesKeptOnlyAsChosen ==
  /\ elem = "OwnedFrame" =>
       /\ views \subseteq {cb[t].frame : t \in {u \in StreamThreads : cb[u].pc = "insert"}}
       /\ views \cap Retained = {}
  /\ elem = "Frame" => views = InInvocation \cup Retained

\* C22's case: an OwnedFrame listener delivered a set whose frames went
\* through callback invocations that have returned, and no native Frame is
\* left.
C22_Witness ==
  /\ elem = "OwnedFrame"
  /\ \E c \in Consumers :
       consumer[c].got.kind = "set" /\ FramesOf(consumer[c].got.map) # {}
  /\ \A t \in StreamThreads : cb[t].pc = "idle"
  /\ views = {}

(* ---------------------------- the closed flag -------------------------- *)

\* C40: closed starts false, becomes true only by a close() that succeeded,
\* never returns to false, and once it is true neither started nor closed
\* changes again.
C40_ClosedMonotonic ==
  /\ ~closed
  /\ [][/\ closed => (closed' /\ started' = started)
        /\ (~closed /\ closed') => (last'.op = "close" /\ last'.ret = "ok")]_vars

\* C40's case: a streaming session was closed, and a later start was
\* refused with both flags as they were.
C40_Witness ==
  /\ closed /\ started
  /\ last.op = "start" /\ last.preClosed /\ last.ret = "Closed"

(* --------------------- devices and their context ----------------------- *)

\* C39: while a device opened through a handle has not been dropped, the
\* native context that opened it is live: the handle it borrows keeps a
\* strong reference, whatever happens to the other handles.
C39_DeviceWithinContext ==
  \A t \in Threads, c \in Ctxs :
    devs[t][c] > 0 => (native[c] = "live" /\ strong[c] >= devs[t][c])

\* C39's case: a device is open, every handle but the one it borrows has
\* been dropped, and the context is still there.
C39_Witness ==
  \E t \in Threads, c \in Ctxs :
    /\ devs[t][c] > 0 /\ sharedDrop /\ strong[c] = 1
    /\ TotalHandles = 1 /\ native[c] = "live"

(* -------------------------- the config's range ------------------------- *)

\* C36: after any sequence of setter calls on a new Config, 0 < min depth <
\* max depth; a filter setter leaves both depth bounds as they are and a
\* depth setter leaves both filter toggles as they are.
C36_DepthRangeKept ==
  /\ [](Gt(cfgMin, Zero) /\ Lt(cfgMin, cfgMax))
  /\ [][/\ cfgLast'.op \in {"set_enable_bilateral_filter",
                            "set_enable_edge_aware_filter"} =>
             (cfgMin' = cfgMin /\ cfgMax' = cfgMax)
        /\ cfgLast'.op \in {"set_min_depth", "set_max_depth"} =>
             (cfgBilateral' = cfgBilateral /\ cfgEdgeAware' = cfgEdgeAware)]_vars

\* C36's case: both depth bounds were moved off their defaults, a setter
\* was refused and a filter was switched off.
C36_Witness ==
  /\ cfgMin # DefaultMinDepth /\ cfgMax # DefaultMaxDepth
  /\ ~cfgBilateral
  /\ cfgLast.op = "set_min_depth" /\ cfgLast.ret # "ok"

(* ----------------------- pixels and their iteration -------------------- *)

\* The n bytes of the pixel (x, y) of a row-major buffer, in order.
PixelBytes(f, x, y, n) ==
  [kind |-> "value", index |-> (y * f.width + x) * f.bytes_per_pixel,
   bytes |-> [k \in 1..n |-> Byte(f.raw_data, (y * f.width + x) * f.bytes_per_pixel + k - 1)]]

\* C37: for a Float frame and every (x, y) in range, get_pixel(x, y) is
\* made of the 4 bytes at offset (y * width + x) * bytes_per_pixel, and the
\* x-th value of the y-th row of iter() is the same value.
C37_FloatPixelIsIteratedValue ==
  (curFrame # Nothing /\ format(curFrame.f) = "Float") =>
    /\ \A x \in 0..(curFrame.f.width - 1), y \in 0..(curFrame.f.height - 1) :
         get_pixel(curFrame.f, x, y) = PixelBytes(curFrame.f, x, y, 4)
    /\ iter.last.kind = "value" =>
         iter.last.out = get_pixel(curFrame.f, iter.ncols - 1, iter.nrows - 1)

\* C37's case: the second value of the second row of a Float frame of two
\* rows and one of another width was read through iter().
C37_Witness ==
  /\ curFrame # Nothing /\ format(curFrame.f) = "Float"
  /\ curFrame.f.width # curFrame.f.height
  /\ iter.last.kind = "value" /\ iter.nrows = 2 /\ iter.last.out.kind = "value"
  /\ iter.last.out.index > 0

\* C38: iter() yields the rows 0, 1, ... height - 1 and then ends, each row
\* yields the values of the columns 0, 1, ... width - 1 of that row and then
\* ends, and so does every further call of iter().
C38_IterationRowMajor ==
  iter.live =>
    /\ iter.row = iter.nrows /\ iter.nrows <= curFrame.f.height
    /\ iter.cur # NoRow =>
         /\ iter.cur.row = iter.nrows - 1
         /\ iter.cur.col = iter.ncols /\ iter.ncols <= curFrame.f.width
    /\ iter.last.kind = "row" => iter.last.row = iter.nrows - 1
    /\ iter.last.kind = "value" =>
         /\ iter.last.row = iter.nrows - 1 /\ iter.last.col = iter.ncols - 1
         /\ \E n \in {1, 4} :
              iter.last.out.bytes
                = [k \in 1..n |-> Byte(curFrame.f.raw_data,
                                       ((iter.nrows - 1) * curFrame.f.width
                                          + iter.ncols - 1) * curFrame.f.bytes_per_pixel
                                         + (IF format(curFrame.f) = "BGRX"
                                            THEN BgrOrder[k] ELSE k - 1))]
    /\ iter.last.kind = "end_rows" => iter.nrows = curFrame.f.height
    /\ iter.last.kind = "end_row" => iter.ncols = curFrame.f.width

\* C38's case: a second call of iter() on a frame of two rows of two values
\* has yielded both rows and the second row has ended.
C38_Witness ==
  /\ iter.live /\ iter.runs = 2
  /\ curFrame.f.width = 2 /\ curFrame.f.height = 2
  /\ iter.nrows = 2 /\ iter.ncols = 2 /\ iter.last.kind = "end_row"

(* ----------------------- the listener under contention ----------------- *)

\* C33 as stated: a get_frames_with_timeout(d) returns within d, whatever
\* the other callers of the listener do: no call has used up its timeout in
\* recv_timeout after it was blocked at the receiver's mutex while time
\* passed.  (The code does not keep this: the call waits for the mutex
\* without a deadline, and the timeout starts only once the mutex is held.)
C33_ReturnsWithinTimeout ==
  \A c \in Callers :
    (consumer[c].mode = "timeout" /\ consumer[c].pc # "idle") =>
      ~(consumer[c].waited /\ consumer[c].timer = 0)

\* C34 as stated: an invocation of the callback that fails leaves the
\* aggregator working, so every frame delivered afterwards is inserted: no
\* invocation is turned away at the FrameMap mutex.  (The code does not keep
\* this: a panic under the lock poisons the mutex for good.)
C34_FailureLeavesAggregatorWorking ==
  \A i \in 1..Len(hist.since) : hist.since[i] # "refused"

(* ------------------------- the history of a listener ------------------- *)

\* The i-th frame delivered since the last reset has been stored.
Stored(i) ==
  /\ hist.since[i] \in FrameTypeSet
  /\ \A t \in StreamThreads : ~(cb[t].pc = "insert" /\ cb[t].frame = hist.base + i)

\* The last frame of type ty stored since the last reset, or NoFrame.
LastOf(ty) ==
  LET S == {i \in 1..Len(hist.since) : hist.since[i] = ty /\ Stored(i)} IN
    IF S = {} THEN NoFrame ELSE hist.base + (CHOOSE m \in S : \A j \in S : j <= m)

\* A callback hands over a set in this step.
Completion == nsets' # nsets

\* C31: the pending map holds, for every type, the last frame of that type
\* stored since the last reset (none if there was none), and the set a
\* completion hands over holds exactly these frames.
C31_SetHoldsLatestFrames ==
  /\ [](\A ty \in FrameTypeSet : frames[ty] = LastOf(ty))
  /\ [][Completion =>
          \A ty \in FrameTypeSet : chan'[Len(chan')].map[ty] = LastOf(ty)]_vars

\* C31's case: the first set returned by a Color and Depth listener holds
\* the frames 2 and 3 of the three frames delivered: the Color frame 1 was
\* replaced by the Color frame 2 before the Depth frame 3 completed the set.
C31_Witness ==
  /\ types = {"Color", "Depth"}
  /\ elem # "Caller"
  /\ \E c \in Consumers :
       /\ consumer[c].got.kind = "set"
       /\ consumer[c].got.seq = 1
       /\ consumer[c].got.map = [Color |-> 2, Ir |-> NoFrame, Depth |-> 3]

\* C32: a completed set is numbered one more than the set completed before
\* it and queued behind the sets that wait, and a consumer that receives a
\* set receives the one numbered one more than the sets received so far:
\* the sets come in the order of completion, none twice and none skipped,
\* whichever stream threads completed them.
C32_SetsReceivedInCompletionOrder ==
  [][/\ Completion =>
          /\ nsets' = nsets + 1
          /\ chan' = Append(chan, chan'[Len(chan')])
          /\ chan'[Len(chan')].seq = nsets'
     /\ \A c \in Consumers :
          (consumer[c].pc = "recv" /\ consumer'[c].pc = "idle"
           /\ consumer'[c].got.kind = "set") =>
            (consumer'[c].got.seq = nrecv + 1 /\ nrecv' = nrecv + 1)]_vars

\* C32's case: two sets have been received one after the other, and the
\* second holds frames that came from both stream threads.
C32_Witness ==
  /\ nrecv = 2
  /\ \E c \in Consumers :
       /\ consumer[c].pc = "idle"
       /\ consumer[c].got.kind = "set"
       /\ consumer[c].got.seq = 2
       /\ consumer[c].got.map["Color"] # NoFrame
       /\ consumer[c].got.map["Depth"] # NoFrame

\* The types of the frames stored since the last reset by invocations that
\* have returned.
StoredBefore ==
  {hist.since[i] : i \in {j \in 1..Len(hist.since) :
      Stored(j) /\ \A t \in StreamThreads : cb[t].frame # hist.base + j}}

\* C35: at most one stream thread is between taking the FrameMap mutex and
\* returning; the frames stored by the invocations that have returned since
\* the last reset are never complete, so the invocation that completes the
\* map is the one that sends the set and resets the map; every frame of a
\* set precedes every frame of a later set and every pending frame, so no
\* frame is in two sets or both in a set and pending.
C35_OneCriticalSection ==
  /\ \A t \in StreamThreads, u \in StreamThreads :
       (cb[t].pc # "idle" /\ cb[u].pc # "idle") => t = u
  /\ created => ~(types \subseteq StoredBefore)
  /\ \A s1 \in SetsInSight :
       /\ \A s2 \in SetsInSight :
            s1.seq < s2.seq =>
              \A f1 \in FramesOf(s1.map), f2 \in FramesOf(s2.map) : f1 < f2
       /\ \A f1 \in FramesOf(s1.map), f2 \in FramesOf(frames) : f1 < f2
       /\ \A f1 \in FramesOf(s1.map) : f1 <= hist.base
  /\ \A f \in FramesOf(frames) : f > hist.base

\* C35's case: the colour stream completed a set of a Color and Depth
\* listener with a frame of the depth stream in it, and the depth stream is
\* inside the critical section again with its next frame.
C35_Witness ==
  /\ types = {"Color", "Depth"}
  /\ chan # <<>>
  /\ chan[1].map["Depth"] # NoFrame
  /\ chan[1].map["Color"] > chan[1].map["Depth"]
  /\ cb["depth_stream"].pc = "insert"
  /\ cb["depth_stream"].frame > chan[1].map["Color"]
============================================================================
